---- MODULE Spec2Model ----
(***************************************************************************)
(* Isotope, a Figma plugin that imports and exports local variables        *)
(* (src/code.ts, the revision that starts at line 353).                    *)
(*                                                                         *)
(* Strings are sequences of tokens: the delimiters the code looks at       *)
(* ("/", ".", "{", "}", "$", "_") are tokens of their own, every other     *)
(* token is a piece of text that holds none of them.  split, join,         *)
(* startsWith and endsWith are therefore computed, not assumed.            *)
(*                                                                         *)
(* A JSON value is a record [k, s, o]: k its kind, s its text (scalars,    *)
(* array items), o its entries in insertion order (objects).               *)
(***************************************************************************)
EXTENDS Integers, Sequences, FiniteSets, TLC

VARIABLES
    host,    \* the document's variable store: collections, variables, id counter
    tasks,   \* one record per invocation of figma.ui.onmessage
    ui,      \* every message posted with figma.ui.postMessage, in order
    files,   \* the root documents the user can pick for an import
    arg,     \* input of the codec specifications (a token tree, or a host and a document)
    ret      \* what the codec specifications computed from arg

vars == <<host, tasks, ui, files, arg, ret>>

---------------------------------------------------------------------------
(* Bounds *)

\* invocations of the message handler in one behaviour
MaxRuns == 2
\* entries (groups and leaves together) of a token tree of the codec specifications
MaxNodes == 2
\* modes a collection may hold before the host refuses addMode (the plan's limit)
HostModeLimit == 2
\* rejected host fetches in one behaviour of SpecFaulty
MaxRejects == 1
\* mode names a mode document declares
MaxModes == 2

---------------------------------------------------------------------------
(* Strings *)

Str(a) == <<a>>

StartsWith(s, a) == Len(s) > 0 /\ s[1] = a

EndsWith(s, a) == Len(s) > 0 /\ s[Len(s)] = a

\* index of the first token a in s, 0 when there is none
RECURSIVE IndexOf(_, _, _)
IndexOf(s, a, i) ==
    IF i > Len(s) THEN 0
    ELSE IF s[i] = a THEN i
    ELSE IndexOf(s, a, i + 1)

\* String.prototype.split(sep)
RECURSIVE Split(_, _)
Split(s, sep) ==
    LET i == IndexOf(s, sep, 1) IN
    IF i = 0 THEN <<s>>
    ELSE <<SubSeq(s, 1, i - 1)>> \o Split(SubSeq(s, i + 1, Len(s)), sep)

\* Array.prototype.join(sep)
RECURSIVE Join(_, _)
Join(parts, sep) ==
    IF Len(parts) = 0 THEN <<>>
    ELSE IF Len(parts) = 1 THEN parts[1]
    ELSE parts[1] \o <<sep>> \o Join(Tail(parts), sep)

\* String.prototype.includes
includes(s, sub) ==
    \E i \in 1..(Len(s) - Len(sub) + 1) : SubSeq(s, i, i + Len(sub) - 1) = sub

\* the letters of a text written letter by letter
UpperCase == <<"A", "B", "C", "D", "E", "F", "G", "H", "I", "J", "K", "L", "M", "N", "O", "P", "Q", "R", "S", "T", "U", "V", "W", "X", "Y", "Z">>
LowerCase == <<"a", "b", "c", "d", "e", "f", "g", "h", "i", "j", "k", "l", "m", "n", "o", "p", "q", "r", "s", "t", "u", "v", "w", "x", "y", "z">>

\* String.prototype.toLowerCase, token by token
LowerTok(a) ==
    CASE a = "Color" -> "color"
      [] a = "NUMBER" -> "number"
      [] a = "TRUE" -> "true"
      [] a = "False" -> "false"
      [] a = "COLOR" -> "color"
      [] a = "FLOAT" -> "float"
      [] a = "BOOLEAN" -> "boolean"
      [] a = "STRING" -> "string"
      [] \E n \in 1..Len(UpperCase) : UpperCase[n] = a ->
             LowerCase[CHOOSE n \in 1..Len(UpperCase) : UpperCase[n] = a]
      [] OTHER -> a

toLowerCase(s) == [i \in 1..Len(s) |-> LowerTok(s[i])]

---------------------------------------------------------------------------
(* JSON values *)

JStr(s) == [k |-> "str", s |-> s, o |-> <<>>]
JNum(a) == [k |-> "num", s |-> <<a>>, o |-> <<>>]
JBool(b) == [k |-> "bool", s |-> IF b THEN <<"true">> ELSE <<"false">>, o |-> <<>>]
JNull == [k |-> "null", s |-> <<>>, o |-> <<>>]
JUndef == [k |-> "undef", s |-> <<>>, o |-> <<>>]
JArr(items) == [k |-> "arr", s |-> items, o |-> <<>>]
JObj(entries) == [k |-> "obj", s |-> <<>>, o |-> entries]

E(key, val) == [key |-> key, val |-> val]

\* JavaScript truthiness
Truthy(v) ==
    CASE v.k = "str" -> v.s # <<>>
      [] v.k = "num" -> v.s # <<"0">>
      [] v.k = "bool" -> v.s = <<"true">>
      [] v.k \in {"obj", "arr"} -> TRUE
      [] OTHER -> FALSE

\* typeof v === 'object' && v !== null
IsObject(v) == v.k \in {"obj", "arr"}

\* key in obj
In(key, obj) == \E i \in 1..Len(obj.o) : obj.o[i].key = key

\* obj[key], undefined when the key is absent
Get(obj, key) ==
    IF In(key, obj)
    THEN obj.o[CHOOSE i \in 1..Len(obj.o) : obj.o[i].key = key].val
    ELSE JUndef

\* obj[key] = val: an existing key keeps its place
ObjSet(obj, key, val) ==
    IF In(key, obj)
    THEN JObj([i \in 1..Len(obj.o) |->
                 IF obj.o[i].key = key THEN E(key, val) ELSE obj.o[i]])
    ELSE JObj(Append(obj.o, E(key, val)))

\* a || b
OrElse(a, b) == IF Truthy(a) THEN a ELSE b

\* Map.prototype.set on a map kept as a sequence of entries
MapSet(m, key, val) ==
    IF \E i \in 1..Len(m) : m[i].key = key
    THEN [i \in 1..Len(m) |-> IF m[i].key = key THEN E(key, val) ELSE m[i]]
    ELSE Append(m, E(key, val))

RECURSIVE MapSetAll(_, _)
MapSetAll(m, entries) ==
    IF entries = <<>> THEN m
    ELSE MapSetAll(MapSet(m, Head(entries).key, Head(entries).val), Tail(entries))

---------------------------------------------------------------------------
(* flattenVariables *)

TagType == <<"$", "type">>
TagValue == <<"$", "value">>
TagDescription == <<"$", "description">>
LegacyType == <<"type">>
LegacyValue == <<"value">>
LegacyDescription == <<"description">>

\* a normalisation that reads the DTCG tags only
NormalizedDTCGOnly(value) ==
    [type |-> Get(value, <<"$", "type">>),
     value |-> Get(value, <<"$", "value">>),
     description |-> Get(value, <<"$", "description">>)]

\* the record flattenVariables stores for a leaf
Normalized(value) ==
    [type |-> OrElse(Get(value, TagType), Get(value, LegacyType)),
     value |-> IF Get(value, TagValue) # JUndef
               THEN Get(value, TagValue) ELSE Get(value, LegacyValue),
     description |-> OrElse(Get(value, TagDescription), Get(value, LegacyDescription))]

isVariable(value) ==
    \/ In(TagType, value) /\ In(TagValue, value)
    \/ In(LegacyType, value) /\ In(LegacyValue, value)

\* a detection that looks at the legacy tags only
DetectsLegacyTags(value) ==
    In(LegacyType, value) \/ In(LegacyValue, value)

\* the leaf sets warnLegacy.hasLegacy
DetectsLegacy(value) ==
    /\ ~In(TagType, value)
    /\ ~In(TagValue, value)
    /\ In(LegacyType, value) \/ In(LegacyValue, value)

\* [result: the map from path to record, hasLegacy: the flag after the walk]
RECURSIVE flattenVariables(_, _, _)
flattenVariables(obj, prefix, warnLegacy) ==
    LET RECURSIVE Loop(_, _, _)
        Loop(i, result, legacy) ==
            IF i > Len(obj.o) THEN [result |-> result, hasLegacy |-> legacy]
            ELSE
              LET key == obj.o[i].key
                  value == obj.o[i].val
                  newKey == IF prefix # <<>> THEN prefix \o <<"/">> \o key ELSE key
              IN  IF StartsWith(key, "_") \/ StartsWith(key, "$")
                  THEN Loop(i + 1, result, legacy)
                  ELSE IF ~(Truthy(value) /\ IsObject(value))
                  THEN Loop(i + 1, result, legacy)
                  ELSE IF isVariable(value)
                  THEN Loop(i + 1, MapSet(result, newKey, Normalized(value)),
                            legacy \/ DetectsLegacy(value))
                  ELSE LET children == flattenVariables(value, newKey, legacy)
                       IN  Loop(i + 1, MapSetAll(result, children.result),
                                children.hasLegacy)
    IN  Loop(1, <<>>, warnLegacy)

---------------------------------------------------------------------------
(* The nesting loop of handleExport *)

\* a loop that puts every leaf at the top under its last part
ReconstructFlat(currentLevel, parts, exportValue) ==
    [k |-> "obj", s |-> <<>>,
     o |-> Append(currentLevel.o, [key |-> parts[Len(parts)], val |-> exportValue])]

\* one variable: walk parts from currentLevel, creating groups, and put the leaf
RECURSIVE ReconstructNested(_, _, _)
ReconstructNested(currentLevel, parts, exportValue) ==
    IF Len(parts) = 1
    THEN ObjSet(currentLevel, parts[1], exportValue)
    ELSE LET part == parts[1]
             next == IF ~Truthy(Get(currentLevel, part))
                     THEN JObj(<<>>) ELSE Get(currentLevel, part)
         IN  ObjSet(currentLevel, part,
                    ReconstructNested(next, Tail(parts), exportValue))

\* a normalized record as the JSON object it is (undefined fields are no keys)
RecordObject(r) ==
    JObj(  (IF r.type # JUndef THEN <<E(TagType, r.type)>> ELSE <<>>)
        \o (IF r.value # JUndef THEN <<E(TagValue, r.value)>> ELSE <<>>)
        \o (IF r.description # JUndef THEN <<E(TagDescription, r.description)>> ELSE <<>>))

\* the tree the nesting loop builds from a flattened map
RECURSIVE NestAll(_, _)
NestAll(level, m) ==
    IF m = <<>> THEN level
    ELSE NestAll(ReconstructNested(level, Split(Head(m).key, "/"),
                                   RecordObject(Head(m).val)),
                 Tail(m))

---------------------------------------------------------------------------
(* The host's variable store (the figma.variables calls the plugin makes) *)

ModeOne == <<"Mode 1">>

\* a stored per-mode value: k its kind, s its text, id the alias target
HVal(k, s, id) == [k |-> k, s |-> s, id |-> id]

\* the value a new variable, or a new mode, starts with
DefaultValue(resolvedType) ==
    CASE resolvedType = "COLOR" -> HVal("color", <<"1", "1", "1", "1">>, 0)
      [] resolvedType = "FLOAT" -> HVal("float", <<"0">>, 0)
      [] resolvedType = "BOOLEAN" -> HVal("bool", <<"false">>, 0)
      [] OTHER -> HVal("string", <<>>, 0)

EmptyHost == [cols |-> <<>>, vars |-> <<>>, next |-> 1]

\* index in seq of the first element that satisfies Test, 0 when there is none
Find(seq, Test(_)) ==
    IF \E i \in 1..Len(seq) : Test(seq[i])
    THEN CHOOSE i \in 1..Len(seq) : Test(seq[i]) /\ \A j \in 1..(i - 1) : ~Test(seq[j])
    ELSE 0

ColIndex(h, colId) == LET T(c) == c.id = colId IN Find(h.cols, T)

VarIndex(h, varId) == LET T(v) == v.id = varId IN Find(h.vars, T)

\* figma.variables.createVariableCollection(name): a collection with one mode, "Mode 1"
createVariableCollection(h, name) ==
    [h EXCEPT !.cols = Append(@, [id |-> h.next, name |-> name,
                                  modes |-> <<[modeId |-> h.next + 1, name |-> ModeOne]>>]),
              !.next = @ + 2]

\* collection.renameMode(modeId, name)
renameMode(h, colId, modeId, name) ==
    LET c == ColIndex(h, colId) IN
    [h EXCEPT !.cols[c].modes =
        [j \in 1..Len(@) |-> IF @[j].modeId = modeId
                             THEN [modeId |-> modeId, name |-> name] ELSE @[j]]]

\* collection.addMode(name) throws when the collection is gone or holds the plan's limit
addModeThrows(h, colId) ==
    \/ ColIndex(h, colId) = 0
    \/ Len(h.cols[ColIndex(h, colId)].modes) >= HostModeLimit

\* an addMode that keeps the new mode only
addModeReplacing(h, colId, name) ==
    LET c == ColIndex(h, colId) IN
    [h EXCEPT !.cols[c].modes = <<[modeId |-> h.next, name |-> name]>>,
              !.vars = [j \in 1..Len(h.vars) |->
                          IF h.vars[j].variableCollectionId = colId
                          THEN [h.vars[j] EXCEPT !.valuesByMode =
                                   Append(@, [modeId |-> h.next,
                                              value |-> DefaultValue(h.vars[j].resolvedType)])]
                          ELSE h.vars[j]],
              !.next = @ + 1]

\* collection.addMode(name): the new mode's id is h.next
addMode(h, colId, name) ==
    LET c == ColIndex(h, colId) IN
    [h EXCEPT !.cols[c].modes = Append(@, [modeId |-> h.next, name |-> name]),
              !.vars = [j \in 1..Len(h.vars) |->
                          IF h.vars[j].variableCollectionId = colId
                          THEN [h.vars[j] EXCEPT !.valuesByMode =
                                   Append(@, [modeId |-> h.next,
                                              value |-> DefaultValue(h.vars[j].resolvedType)])]
                          ELSE h.vars[j]],
              !.next = @ + 1]

\* figma.variables.createVariable throws on an empty name, a missing collection
\* and a name the collection already holds
createVariableThrows(h, name, colId) ==
    \/ name = <<>>
    \/ ColIndex(h, colId) = 0
    \/ \E j \in 1..Len(h.vars) :
          h.vars[j].name = name /\ h.vars[j].variableCollectionId = colId

\* figma.variables.createVariable(name, collection, resolvedType)
createVariable(h, name, colId, resolvedType) ==
    LET modes == h.cols[ColIndex(h, colId)].modes
    IN  [h EXCEPT !.vars = Append(@, [id |-> h.next, name |-> name,
                                      variableCollectionId |-> colId,
                                      resolvedType |-> resolvedType,
                                      description |-> <<>>,
                                      valuesByMode |->
                                          [j \in 1..Len(modes) |->
                                              [modeId |-> modes[j].modeId,
                                               value |-> DefaultValue(resolvedType)]]]),
                  !.next = @ + 1]

IsNum(v) == v.k = "num"

\* a JavaScript value as the host stores it for a variable of this type;
\* k = "reject" when setValueForMode throws (the value does not fit the type)
HostValue(resolvedType, v) ==
    CASE resolvedType = "COLOR" /\ v.k = "obj"
           /\ IsNum(Get(v, <<"r">>)) /\ IsNum(Get(v, <<"g">>)) /\ IsNum(Get(v, <<"b">>)) ->
             HVal("color",
                  Get(v, <<"r">>).s \o Get(v, <<"g">>).s \o Get(v, <<"b">>).s
                    \o (IF IsNum(Get(v, <<"a">>)) THEN Get(v, <<"a">>).s ELSE <<"1">>),
                  0)
      [] resolvedType = "FLOAT" /\ v.k = "num" -> HVal("float", v.s, 0)
      [] resolvedType = "BOOLEAN" /\ v.k = "bool" -> HVal("bool", v.s, 0)
      [] resolvedType = "STRING" /\ v.k = "str" -> HVal("string", v.s, 0)
      [] OTHER -> HVal("reject", <<>>, 0)

\* the modes a variable holds a value for are kept as [modeId, value] entries
HasMode(variable, modeId) ==
    \E j \in 1..Len(variable.valuesByMode) : variable.valuesByMode[j].modeId = modeId

\* variable.valuesByMode[modeId]
ValueByMode(variable, modeId) ==
    variable.valuesByMode[CHOOSE j \in 1..Len(variable.valuesByMode) :
                              variable.valuesByMode[j].modeId = modeId].value

\* variable.setValueForMode throws when the variable is gone, when the mode is
\* none of its collection's, and when the value does not fit its type
setValueForModeThrows(h, varId, modeId, hval) ==
    \/ VarIndex(h, varId) = 0
    \/ ~HasMode(h.vars[VarIndex(h, varId)], modeId)
    \/ hval.k = "reject"

\* variable.setValueForMode(modeId, value)
setValueForMode(h, varId, modeId, hval) ==
    [h EXCEPT !.vars[VarIndex(h, varId)].valuesByMode =
        [j \in 1..Len(@) |-> IF @[j].modeId = modeId
                             THEN [modeId |-> modeId, value |-> hval] ELSE @[j]]]

\* figma.variables.createVariableAlias(variable)
createVariableAlias(v) == HVal("alias", <<>>, v.id)

\* collection.remove(): the collection and its variables
removeCollection(h, colId) ==
    [h EXCEPT !.cols = SelectSeq(@, LAMBDA c : c.id # colId),
              !.vars = SelectSeq(@, LAMBDA v : v.variableCollectionId # colId)]

\* figma.util.rgb(hex): the hex digits this model knows; throws on any other text
HexTable == {<<"FF0000", "1", "0", "0">>, <<"AABBCC", "0.667", "0.733", "0.8">>}

rgbThrows(s) == ~(Len(s) = 2 /\ s[1] = "#" /\ \E r \in HexTable : r[1] = s[2])

rgb(s) ==
    LET r == CHOOSE x \in HexTable : x[1] = s[2] IN
    JObj(<<E(<<"r">>, JNum(r[2])), E(<<"g">>, JNum(r[3])), E(<<"b">>, JNum(r[4]))>>)

\* parseFloat(s): the number a string starts with, NaN (here undefined) otherwise
NumberTokens == {"0", "12", "1.5"}

parseFloat(s) ==
    IF Len(s) > 0 /\ s[1] \in NumberTokens THEN JNum(s[1]) ELSE JUndef

---------------------------------------------------------------------------
(* Messages to the UI *)

Message(type, level, code, a, b, c, n, m, data) ==
    [type |-> type, level |-> level, code |-> code, a |-> a, b |-> b, c |-> c,
     n |-> n, m |-> m, data |-> data]

\* a running handler: the host h, the invocation's record t, the messages it posts
Post(sys, msg) == [sys EXCEPT !.out = Append(@, msg)]

\* log(level, message): code names the message's text, a, b, c the names it quotes
log(sys, level, code, a, b, c) ==
    Post(sys, Message("log", level, code, a, b, c, 0, 0, JUndef))

\* the progress message of Passes 2 and 3
Progress(sys, code, n, m) ==
    Post(sys, Message("progress", "", code, <<>>, <<>>, <<>>, n, m, JUndef))

\* a catch block that logs and posts nothing
CaughtSilently(sys, err) ==
    [Post(sys, Message("log", "ERROR", err, <<>>, <<>>, <<>>, 0, 0, JUndef))
     EXCEPT !.t.pc = "done"]

\* the catch block that ends handleImport and the export functions
Caught(sys, err) ==
    [Post(log(sys, "ERROR", err, <<>>, <<>>, <<>>),
          Message("error", "", err, <<>>, <<>>, <<>>, 0, 0, JUndef))
     EXCEPT !.t.pc = "done"]

---------------------------------------------------------------------------
(* handleImport *)

ChunkSize == 20

MapHas(m, key) == \E i \in 1..Len(m) : m[i].key = key

\* Map.prototype.get; 0 stands for undefined (ids start at 1)
MapGet(m, key) ==
    IF MapHas(m, key) THEN m[CHOOSE i \in 1..Len(m) : m[i].key = key].val ELSE 0

\* Object.keys(obj)
Keys(obj) == [i \in 1..Len(obj.o) |-> obj.o[i].key]

\* a table that is read without lower-casing the tag
mapJsonTypeExact(jsonType) ==
    IF jsonType = <<"color">> THEN "COLOR"
    ELSE IF jsonType = <<"number">> THEN "FLOAT"
    ELSE IF jsonType = <<"boolean">> THEN "BOOLEAN"
    ELSE "STRING"

mapJsonTypeToFigmaType(jsonType) ==
    LET type == toLowerCase(jsonType) IN
    IF type = <<"color">> THEN "COLOR"
    ELSE IF type = <<"number">> THEN "FLOAT"
    ELSE IF type = <<"boolean">> THEN "BOOLEAN"
    ELSE IF type = <<"string">> THEN "STRING"
    ELSE "STRING"

\* a field of the record flattenVariables made; undefined when it has no such field
Field(varData, f) == IF f \in DOMAIN varData THEN varData[f] ELSE JUndef

\* existingModes.find(m => m.name === name)?.modeId; 0 stands for undefined
ModeIdByName(existingModes, name) ==
    LET T(m) == m.name = name
        i == Find(existingModes, T)
    IN  IF i = 0 THEN 0 ELSE existingModes[i].modeId

\* a Pass 1 that never renames the default mode
RenamesDefaultNever(defaultMode, i) == FALSE

\* the first declared mode takes over the default mode (i counts from 1 here)
RenamesDefault(defaultMode, i) == defaultMode # 0 /\ i = 1

\* Pass 1, the loop over jsonModeNames from index i of one collection:
\* [sys, modeMap, threw]
RECURSIVE ModeLoop(_, _, _, _, _, _, _)
ModeLoop(sys, colId, collectionName, jsonModeNames, existingModes, i, modeMap) ==
    IF i > Len(jsonModeNames)
    THEN [sys |-> sys, modeMap |-> modeMap, threw |-> FALSE]
    ELSE
      LET modeName == jsonModeNames[i]
          known == ModeIdByName(existingModes, modeName)
          defaultMode == ModeIdByName(existingModes, ModeOne)
      IN  IF known # 0
          THEN ModeLoop(sys, colId, collectionName, jsonModeNames, existingModes,
                        i + 1, MapSet(modeMap, modeName, known))
          ELSE IF RenamesDefault(defaultMode, i)
          THEN ModeLoop(log([sys EXCEPT !.h = renameMode(@, colId, defaultMode, modeName)],
                            "INFO", "renamed-default", modeName, collectionName, <<>>),
                        colId, collectionName, jsonModeNames, existingModes,
                        i + 1, MapSet(modeMap, modeName, defaultMode))
          ELSE IF addModeThrows(sys.h, colId)
          THEN [sys |-> sys, modeMap |-> modeMap, threw |-> TRUE]
          ELSE ModeLoop(log([sys EXCEPT !.h = addMode(@, colId, modeName)],
                            "INFO", "adding-mode", modeName, collectionName, <<>>),
                        colId, collectionName, jsonModeNames, existingModes,
                        i + 1, MapSet(modeMap, modeName, sys.h.next))

\* the end of handleImport: the legacy warning, the last log, the result
ImportFinish(sys) ==
    LET s1 == IF sys.t.legacyDetector
              THEN log(sys, "WARN", "legacy-format", <<>>, <<>>, <<>>) ELSE sys
        s2 == log(s1, "INFO", "import-completed", <<>>, <<>>, <<>>)
    IN  [Post(s2, Message("import-success", "", "", <<>>, <<>>, <<>>, 0, 0, JUndef))
         EXCEPT !.t.pc = "done"]

\* Object.entries throws on undefined and null
EntriesThrows(obj) == obj.k \in {"undef", "null"}

RECURSIVE EnterPass3(_)
RECURSIVE EnterP3Mode(_)

\* Pass 3, the head of the loop over one mode's variables
EnterP3Var(sys) ==
    IF sys.t.vi > Len(sys.t.variables)
    THEN EnterP3Mode([sys EXCEPT !.t.mi = @ + 1])
    ELSE IF sys.t.processedCount % ChunkSize = 0
    THEN [Progress(sys, "setting-values", sys.t.processedCount, Len(sys.t.variables))
          EXCEPT !.t.pc = "p3_delay"]
    ELSE [sys EXCEPT !.t.processedCount = @ + 1, !.t.pc = "p3_vars"]

\* Pass 3, the head of the loop over one collection's modes
EnterP3Mode(sys) ==
    LET modes == sys.t.data.o[sys.t.ci].val
        modeMap == MapGet(sys.t.collectionModeMaps, sys.t.data.o[sys.t.ci].key)
    IN  IF sys.t.mi > Len(modes.o)
        THEN EnterPass3([sys EXCEPT !.t.ci = @ + 1])
        ELSE IF MapGet(modeMap, modes.o[sys.t.mi].key) = 0
        THEN EnterP3Mode([sys EXCEPT !.t.mi = @ + 1])
        ELSE IF EntriesThrows(modes.o[sys.t.mi].val)
        THEN Caught(sys, "TypeError")
        ELSE LET flat == flattenVariables(modes.o[sys.t.mi].val, <<>>, sys.t.legacyDetector)
             IN  EnterP3Var([sys EXCEPT !.t.variables = flat.result,
                                        !.t.legacyDetector = flat.hasLegacy,
                                        !.t.processedCount = 0,
                                        !.t.vi = 1])

\* Pass 3, the head of the loop over the document's collections
EnterPass3(sys) ==
    IF sys.t.ci > Len(sys.t.data.o)
    THEN ImportFinish(sys)
    ELSE IF ~MapHas(sys.t.collectionMap, sys.t.data.o[sys.t.ci].key)
    THEN EnterPass3([sys EXCEPT !.t.ci = @ + 1])
    ELSE EnterP3Mode([sys EXCEPT !.t.mi = 1])

RECURSIVE EnterPass2(_)

\* Pass 2, the head of the loop over the first mode's variables
EnterP2Var(sys) ==
    IF sys.t.vi > Len(sys.t.variables)
    THEN EnterPass2([sys EXCEPT !.t.ci = @ + 1])
    ELSE IF sys.t.processedCount % ChunkSize = 0
    THEN [Progress(sys, "creating-variables", sys.t.processedCount, Len(sys.t.variables))
          EXCEPT !.t.pc = "p2_delay"]
    ELSE [sys EXCEPT !.t.processedCount = @ + 1, !.t.pc = "p2_vars"]

\* a Pass 2 that stops after the first collection of the document
EnterPass2FirstCollection(sys) ==
    IF sys.t.ci > 1
    THEN EnterPass3([sys EXCEPT !.t.ci = 1])
    ELSE IF ~MapHas(sys.t.collectionMap, sys.t.data.o[sys.t.ci].key)
    THEN EnterPass2([sys EXCEPT !.t.ci = @ + 1])
    ELSE LET modes == sys.t.data.o[sys.t.ci].val
             firstMode == IF Len(modes.o) = 0 THEN JUndef ELSE modes.o[1].val
         IN  IF EntriesThrows(firstMode)
             THEN Caught(sys, "TypeError")
             ELSE LET flat == flattenVariables(firstMode, <<>>, sys.t.legacyDetector)
                  IN  EnterP2Var([sys EXCEPT !.t.variables = flat.result,
                                             !.t.legacyDetector = flat.hasLegacy,
                                             !.t.processedCount = 0,
                                             !.t.vi = 1])

\* a Pass 2 that discovers the variables from the last mode
EnterPass2LastMode(sys) ==
    IF sys.t.ci > Len(sys.t.data.o)
    THEN EnterPass3([sys EXCEPT !.t.ci = 1])
    ELSE IF ~MapHas(sys.t.collectionMap, sys.t.data.o[sys.t.ci].key)
    THEN EnterPass2([sys EXCEPT !.t.ci = @ + 1])
    ELSE LET modes == sys.t.data.o[sys.t.ci].val
             lastMode == IF Len(modes.o) = 0 THEN JUndef ELSE modes.o[Len(modes.o)].val
         IN  IF EntriesThrows(lastMode)
             THEN Caught(sys, "TypeError")
             ELSE LET flat == flattenVariables(lastMode, <<>>, sys.t.legacyDetector)
                  IN  EnterP2Var([sys EXCEPT !.t.variables = flat.result,
                                             !.t.legacyDetector = flat.hasLegacy,
                                             !.t.processedCount = 0,
                                             !.t.vi = 1])

\* Pass 2, the head of the loop over the document's collections
EnterPass2(sys) ==
    IF sys.t.ci > Len(sys.t.data.o)
    THEN EnterPass3([sys EXCEPT !.t.ci = 1])
    ELSE IF ~MapHas(sys.t.collectionMap, sys.t.data.o[sys.t.ci].key)
    THEN EnterPass2([sys EXCEPT !.t.ci = @ + 1])
    ELSE LET modes == sys.t.data.o[sys.t.ci].val
             firstMode == IF Len(modes.o) = 0 THEN JUndef ELSE modes.o[1].val
         IN  IF EntriesThrows(firstMode)
             THEN Caught(sys, "TypeError")
             ELSE LET flat == flattenVariables(firstMode, <<>>, sys.t.legacyDetector)
                  IN  EnterP2Var([sys EXCEPT !.t.variables = flat.result,
                                             !.t.legacyDetector = flat.hasLegacy,
                                             !.t.processedCount = 0,
                                             !.t.vi = 1])

\* Pass 1, the head of the loop over the document's collections
EnterPass1(sys) ==
    IF sys.t.ci > Len(sys.t.data.o)
    THEN EnterPass2([sys EXCEPT !.t.ci = 1])
    ELSE [sys EXCEPT !.t.pc = "p1_cols"]

\* handleImport up to its first await
ImportStart(sys) ==
    EnterPass1(log(sys, "INFO", "starting-import", <<>>, <<>>, <<>>))

\* a Pass 1 that looks no collection up
FindCollectionNever(h, collectionName) == 0

\* a lookup that passes over the collections that hold no variable yet
FindCollectionInUse(h, collectionName) ==
    LET T(c) == /\ c.name = collectionName
                /\ \E v \in 1..Len(h.vars) : h.vars[v].variableCollectionId = c.id
    IN  Find(h.cols, T)

\* (await getLocalVariableCollectionsAsync()).find(c => c.name === collectionName)
FindCollection(h, collectionName) ==
    LET T(c) == c.name = collectionName IN Find(h.cols, T)

\* Pass 1, one collection: from the answer of getLocalVariableCollectionsAsync on
Pass1Collection(sys) ==
    LET collectionName == sys.t.data.o[sys.t.ci].key
        modes == sys.t.data.o[sys.t.ci].val
        found == FindCollection(sys.h, collectionName)
        s1 == IF found = 0
              THEN log([sys EXCEPT !.h = createVariableCollection(@, collectionName)],
                       "INFO", "creating-collection", collectionName, <<>>, <<>>)
              ELSE sys
        collection == IF found = 0 THEN s1.h.cols[Len(s1.h.cols)] ELSE sys.h.cols[found]
        r == ModeLoop(s1, collection.id, collectionName, Keys(modes),
                      collection.modes, 1, <<>>)
    IN  IF r.threw
        THEN Caught(r.sys, "addMode-limit")
        ELSE EnterPass1([r.sys EXCEPT
                !.t.collectionMap = MapSet(@, collectionName, collection.id),
                !.t.collectionModeMaps = MapSet(@, collectionName, r.modeMap),
                !.t.ci = @ + 1])

\* existingVars.find(v => v.name === varName && v.variableCollectionId === collection.id)
FindVariable(h, varName, colId) ==
    LET T(v) == v.name = varName /\ v.variableCollectionId = colId
    IN  Find(h.vars, T)

\* Pass 2, one variable: from the answer of getLocalVariablesAsync on
Pass2Variable(sys) ==
    LET varName == sys.t.variables[sys.t.vi].key
        varData == sys.t.variables[sys.t.vi].val
        colId == MapGet(sys.t.collectionMap, sys.t.data.o[sys.t.ci].key)
        next == [sys EXCEPT !.t.vi = @ + 1]
    IN  IF FindVariable(sys.h, varName, colId) # 0
        THEN EnterP2Var(next)
        ELSE IF Truthy(Field(varData, "type")) /\ Field(varData, "type").k # "str"
        THEN Caught(sys, "TypeError")
        ELSE LET type == IF Truthy(Field(varData, "type"))
                         THEN mapJsonTypeToFigmaType(Field(varData, "type").s)
                         ELSE "STRING"
             IN  IF createVariableThrows(sys.h, varName, colId)
                 THEN EnterP2Var(log(next, "ERROR", "create-failed", varName, <<>>, <<>>))
                 ELSE EnterP2Var(log([next EXCEPT !.h = createVariable(@, varName, colId, type)],
                                     "INFO", "creating-variable", varName, <<type>>, <<>>))

\* the text between the braces of "{...}", split on "."
AliasParts(s) == Split(SubSeq(s, 2, Len(s) - 1), ".")

\* the explicit alias fields of a record
IsExplicitAlias(varData) ==
    Truthy(Field(varData, "targetCollection")) /\ Truthy(Field(varData, "targetVariable"))

\* the string form "{Collection.Path.To.Variable}"
IsStringAlias(valueToSet) ==
    /\ valueToSet.k = "str"
    /\ StartsWith(valueToSet.s, "{")
    /\ EndsWith(valueToSet.s, "}")
    /\ Len(AliasParts(valueToSet.s)) >= 2

\* the structured values of the full spec: a color's components, a dimension's value
Unwrap(valueToSet) ==
    IF ~IsObject(valueToSet) THEN valueToSet
    ELSE IF In(<<"colorSpace">>, valueToSet) /\ In(<<"components">>, valueToSet)
            /\ Get(valueToSet, <<"components">>).k = "arr"
    THEN LET c == Get(valueToSet, <<"components">>).s
             At(j) == IF j <= Len(c) THEN JNum(c[j]) ELSE JUndef
         IN  JObj(<<E(<<"r">>, At(1)), E(<<"g">>, At(2)), E(<<"b">>, At(3)),
                    E(<<"a">>, JNum("1"))>>)
    ELSE IF In(<<"value">>, valueToSet) /\ In(<<"unit">>, valueToSet)
    THEN Get(valueToSet, <<"value">>)
    ELSE valueToSet

\* a conversion that does not look whether the number parsed
ConvertUnchecked(resolvedType, v) ==
    IF resolvedType = "COLOR" /\ v.k = "str" /\ StartsWith(v.s, "#")
    THEN rgb(v.s)
    ELSE IF resolvedType = "FLOAT" /\ v.k = "str"
    THEN (IF parseFloat(v.s) # JUndef THEN parseFloat(v.s) ELSE JNum("NaN"))
    ELSE IF resolvedType = "BOOLEAN" /\ v.k = "str"
    THEN (IF toLowerCase(v.s) = <<"true">> THEN JBool(TRUE)
          ELSE IF toLowerCase(v.s) = <<"false">> THEN JBool(FALSE)
          ELSE v)
    ELSE v

\* the type conversions of Pass 3; they throw where figma.util.rgb does
rgbCallThrows(resolvedType, v) ==
    resolvedType = "COLOR" /\ v.k = "str" /\ StartsWith(v.s, "#") /\ rgbThrows(v.s)

Convert(resolvedType, v) ==
    IF resolvedType = "COLOR" /\ v.k = "str" /\ StartsWith(v.s, "#")
    THEN rgb(v.s)
    ELSE IF resolvedType = "FLOAT" /\ v.k = "str"
    THEN (IF parseFloat(v.s) # JUndef THEN parseFloat(v.s) ELSE v)
    ELSE IF resolvedType = "BOOLEAN" /\ v.k = "str"
    THEN (IF toLowerCase(v.s) = <<"true">> THEN JBool(TRUE)
          ELSE IF toLowerCase(v.s) = <<"false">> THEN JBool(FALSE)
          ELSE v)
    ELSE v

\* the mode id Pass 3 writes to: modeMap.get(modeName)
CurrentModeId(t) ==
    MapGet(MapGet(t.collectionModeMaps, t.data.o[t.ci].key),
           t.data.o[t.ci].val.o[t.mi].key)

\* Pass 3, a value that is no alias: convert it and set it; a throw is logged
SetScalar(sys, variable, varName, varData) ==
    LET valueToSet == Unwrap(Field(varData, "value"))
        hval == HostValue(variable.resolvedType, Convert(variable.resolvedType, valueToSet))
        modeId == CurrentModeId(sys.t)
    IN  IF \/ rgbCallThrows(variable.resolvedType, valueToSet)
           \/ setValueForModeThrows(sys.h, variable.id, modeId, hval)
        THEN log(sys, "ERROR", "set-failed", varName, <<>>, <<>>)
        ELSE [sys EXCEPT !.h = setValueForMode(@, variable.id, modeId, hval)]

\* Pass 3, one value: from the answer of getLocalVariablesAsync on
Pass3Value(sys) ==
    LET varName == sys.t.variables[sys.t.vi].key
        varData == sys.t.variables[sys.t.vi].val
        colId == MapGet(sys.t.collectionMap, sys.t.data.o[sys.t.ci].key)
        found == FindVariable(sys.h, varName, colId)
        variable == sys.h.vars[found]
        valueToSet == Field(varData, "value")
        next == [sys EXCEPT !.t.vi = @ + 1]
    IN  IF found = 0
        THEN EnterP3Var(next)
        ELSE IF IsExplicitAlias(varData)
        THEN [sys EXCEPT !.t.variableId = variable.id,
                         !.t.targetCollectionName = Field(varData, "targetCollection").s,
                         !.t.targetVariableName = Field(varData, "targetVariable").s,
                         !.t.pc = "p3_alias_cols"]
        ELSE IF IsStringAlias(valueToSet)
        THEN [sys EXCEPT !.t.variableId = variable.id,
                         !.t.targetCollectionName = AliasParts(valueToSet.s)[1],
                         !.t.targetVariableName = Join(Tail(AliasParts(valueToSet.s)), "/"),
                         !.t.pc = "p3_alias_cols"]
        ELSE EnterP3Var(SetScalar(next, variable, varName, varData))

\* a resolution that falls back on the first variable there is
ResolveAliasAnyVariable(allCollections, allVars, targetCollectionName, targetVariableName) ==
    [index |-> 1, fuzzy |-> TRUE]

\* a resolution by name alone
ResolveAliasByName(allCollections, allVars, targetCollectionName, targetVariableName) ==
    LET TF(v) == v.name = targetVariableName
    IN  [index |-> Find(allVars, TF), fuzzy |-> TRUE]

\* the alias's target: exact match first, then the first variable of that name
\* [index in allVars (0: none), fuzzy: found by name alone]
ResolveAlias(allCollections, allVars, targetCollectionName, targetVariableName) ==
    LET TC(c) == c.name = targetCollectionName
        targetCol == Find(allCollections, TC)
        TE(v) == /\ v.name = targetVariableName
                 /\ v.variableCollectionId = allCollections[targetCol].id
        exact == IF targetCol = 0 THEN 0 ELSE Find(allVars, TE)
        TF(v) == v.name = targetVariableName
    IN  IF exact # 0 THEN [index |-> exact, fuzzy |-> FALSE]
        ELSE [index |-> Find(allVars, TF), fuzzy |-> TRUE]

\* Pass 3, an alias: from the answer of the second fetch on
Pass3Alias(sys) ==
    LET t == sys.t
        varName == t.variables[t.vi].key
        allCollections == t.allCollections
        allVars == sys.h.vars
        r == ResolveAlias(allCollections, allVars, t.targetCollectionName, t.targetVariableName)
        targetVar == allVars[r.index]
        TI(c) == c.id = targetVar.variableCollectionId
        foundCol == Find(allCollections, TI)
        s1 == IF r.index # 0 /\ r.fuzzy
              THEN log(sys, "WARN", "fuzzy-match", t.targetVariableName, t.targetCollectionName,
                       IF foundCol = 0 THEN <<"undefined">> ELSE allCollections[foundCol].name)
              ELSE sys
        modeId == CurrentModeId(t)
        hval == createVariableAlias(targetVar)
        s2 == IF r.index = 0
              THEN log(s1, "WARN", "alias-not-found", t.targetVariableName,
                       t.targetCollectionName, <<>>)
              ELSE IF setValueForModeThrows(s1.h, t.variableId, modeId, hval)
              THEN log(s1, "ERROR", "set-failed", varName, <<>>, <<>>)
              ELSE [s1 EXCEPT !.h = setValueForMode(@, t.variableId, modeId, hval)]
    IN  EnterP3Var([s2 EXCEPT !.t.vi = @ + 1])

---------------------------------------------------------------------------
(* handleExport, exportAsCSS, exportAsTailwind *)

Formats == {"simplified", "fullspec", "css", "tailwind"}

\* rgbToHex(r, g, b) on the colours of HexTable and on the default white
rgbToHex(c) ==
    IF \E r \in HexTable : <<r[2], r[3], r[4]>> = SubSeq(c, 1, 3)
    THEN (CHOOSE r \in HexTable : <<r[2], r[3], r[4]>> = SubSeq(c, 1, 3))[1]
    ELSE IF SubSeq(c, 1, 3) = <<"1", "1", "1">> THEN "FFFFFF"
    ELSE "??????"

\* convertValueForFormat: null for an alias, else the value in the format's form
convertValueForFormat(value, variable, format) ==
    IF value.k = "alias" THEN JNull
    ELSE
      LET plain == CASE value.k = "float" -> JNum(value.s[1])
                     [] value.k = "bool" -> JBool(value.s = <<"true">>)
                     [] value.k = "string" -> JStr(value.s)
                     [] OTHER -> JObj(<<E(<<"r">>, JNum(value.s[1])), E(<<"g">>, JNum(value.s[2])),
                                        E(<<"b">>, JNum(value.s[3])), E(<<"a">>, JNum(value.s[4]))>>)
      IN  IF format = "fullspec"
          THEN IF variable.resolvedType = "COLOR" /\ value.k = "color"
               THEN JObj(<<E(<<"colorSpace">>, JStr(<<"srgb">>)),
                           E(<<"components">>, JArr(SubSeq(value.s, 1, 3)))>>)
               ELSE IF variable.resolvedType = "FLOAT"
               THEN JObj(<<E(<<"value">>, plain), E(<<"unit">>, JStr(<<"px">>))>>)
               ELSE plain
          ELSE IF format = "simplified"
          THEN IF variable.resolvedType = "COLOR" /\ value.k = "color"
               THEN JStr(<<"#", rgbToHex(value.s)>>)
               ELSE plain
          ELSE plain

\* a replacement of the first "/" only
SlashesToDotsFirst(s) ==
    [i \in 1..Len(s) |-> IF i = IndexOf(s, "/", 1) THEN "." ELSE s[i]]

\* String.prototype.replace(/\//g, '.')
SlashesToDots(s) == [i \in 1..Len(s) |-> IF s[i] = "/" THEN "." ELSE s[i]]

\* a type tag that is "number" for FLOAT in every format
ExportTypeNumber(resolvedType, format) ==
    LET jsonType == LowerTok(resolvedType) IN
    IF jsonType = "float" THEN "number" ELSE jsonType

\* the JSON type tag of a resolved type
ExportType(resolvedType, format) ==
    LET jsonType == LowerTok(resolvedType) IN
    IF jsonType = "float"
    THEN (IF format = "fullspec" THEN "dimension" ELSE "number")
    ELSE jsonType

\* the leaf handleExport writes for one variable in one mode: [value, broken]
ExportValue(h, variable, modeId, format) ==
    LET value == ValueByMode(variable, modeId)
        convertedValue == convertValueForFormat(value, variable, format)
        target == VarIndex(h, value.id)
        targetVariable == h.vars[target]
        targetCollection == ColIndex(h, targetVariable.variableCollectionId)
        collectionName == IF targetCollection = 0 THEN <<"Unknown">>
                          ELSE IF h.cols[targetCollection].name = <<>> THEN <<"Unknown">>
                          ELSE h.cols[targetCollection].name
        out == IF convertedValue # JNull THEN convertedValue
               ELSE IF target # 0
               THEN JStr(<<"{">> \o collectionName \o <<".">>
                         \o SlashesToDots(targetVariable.name) \o <<"}">>)
               ELSE JStr(<<"BROKEN_ALIAS">>)
    IN  [value |-> JObj(<<E(TagType, JStr(<<ExportType(variable.resolvedType, format)>>)),
                          E(TagDescription, JStr(variable.description)),
                          E(TagValue, out)>>),
         broken |-> convertedValue = JNull /\ target = 0]

\* handleExport's loop over the variables of one mode, from index i:
\* sys gets the warnings, level is the mode's tree
RECURSIVE ExportVariables(_, _, _, _, _, _)
ExportVariables(sys, level, collectionVariables, mode, format, i) ==
    IF i > Len(collectionVariables) THEN [sys |-> sys, level |-> level]
    ELSE
      LET variable == collectionVariables[i]
          x == ExportValue(sys.h, variable, mode.modeId, format)
          s1 == IF x.broken
                THEN log(sys, "WARN", "broken-alias", variable.name, mode.name, <<>>)
                ELSE sys
      IN  ExportVariables(s1, ReconstructNested(level, Split(variable.name, "/"), x.value),
                          collectionVariables, mode, format, i + 1)

\* handleExport's loop over the modes of one collection, from index j
RECURSIVE ExportModes(_, _, _, _, _, _)
ExportModes(sys, group, collection, collectionVariables, format, j) ==
    IF j > Len(collection.modes) THEN [sys |-> sys, group |-> group]
    ELSE
      LET mode == collection.modes[j]
          r == ExportVariables(sys, JObj(<<>>), collectionVariables, mode, format, 1)
      IN  ExportModes(r.sys, ObjSet(group, mode.name, r.level), collection,
                      collectionVariables, format, j + 1)

\* handleExport's loop over the collections, from index c
RECURSIVE ExportCollections(_, _, _, _, _, _)
ExportCollections(sys, result, collections, variables, format, c) ==
    IF c > Len(collections) THEN [sys |-> sys, result |-> result]
    ELSE
      LET collection == collections[c]
          collectionVariables ==
              SelectSeq(variables, LAMBDA v : v.variableCollectionId = collection.id)
          r == ExportModes(sys, JObj(<<>>), collection, collectionVariables, format, 1)
      IN  ExportCollections(r.sys, ObjSet(result, collection.name, r.group),
                            collections, variables, format, c + 1)

\* the sections of themeConfig, in the order of the object literal
ThemeSections ==
    <<"colors", "spacing", "fontSize", "fontFamily", "fontWeight", "lineHeight",
      "borderRadius", "boxShadow", "opacity", "zIndex">>

\* variable.name.split('/').join('-').toLowerCase()
TailwindKey(name) == toLowerCase(Join(Split(name, "/"), "-"))

\* a routing that looks for the radius words first
FloatSectionRadiusFirst(lowerName) ==
    IF includes(lowerName, <<"r", "a", "d", "i", "u", "s">>)
       \/ includes(lowerName, <<"r", "o", "u", "n", "d", "e", "d">>)
    THEN "borderRadius"
    ELSE IF includes(lowerName, <<"f", "o", "n", "t">>)
            /\ includes(lowerName, <<"s", "i", "z", "e">>)
    THEN "fontSize"
    ELSE "spacing"

\* the section exportAsTailwind picks for a FLOAT variable
FloatSection(lowerName) ==
    IF \/ includes(lowerName, <<"s", "p", "a", "c", "i", "n", "g">>)
       \/ includes(lowerName, <<"s", "p", "a", "c", "e">>)
       \/ includes(lowerName, <<"g", "a", "p">>)
       \/ includes(lowerName, <<"m", "a", "r", "g", "i", "n">>)
       \/ includes(lowerName, <<"p", "a", "d", "d", "i", "n", "g">>)
    THEN "spacing"
    ELSE IF includes(lowerName, <<"f", "o", "n", "t">>)
            /\ includes(lowerName, <<"s", "i", "z", "e">>)
    THEN "fontSize"
    ELSE IF includes(lowerName, <<"r", "a", "d", "i", "u", "s">>)
            \/ includes(lowerName, <<"r", "o", "u", "n", "d", "e", "d">>)
    THEN "borderRadius"
    ELSE "spacing"

\* the section exportAsTailwind picks for a STRING variable, "" when it picks none
StringSection(lowerName) ==
    IF includes(lowerName, <<"f", "o", "n", "t">>)
       /\ (includes(lowerName, <<"f", "a", "m", "i", "l", "y">>)
            \/ includes(lowerName, <<"f", "a", "c", "e">>))
    THEN "fontFamily"
    ELSE IF includes(lowerName, <<"s", "h", "a", "d", "o", "w">>)
    THEN "boxShadow"
    ELSE ""

\* `${value}`
TemplateText(value) == IF value.k = "alias" THEN <<"[object Object]">> ELSE value.s

\* themeConfig[section][key] = val
ThemeSet(theme, section, key, val) ==
    ObjSet(theme, <<section>>, ObjSet(Get(theme, <<section>>), key, val))

\* what exportAsTailwind does with one variable in the first mode of its collection
TailwindVariable(h, theme, variable, mode) ==
    LET value == ValueByMode(variable, mode.modeId)
        tailwindKey == TailwindKey(variable.name)
        lowerName == toLowerCase(variable.name)
        target == VarIndex(h, value.id)
    IN  IF variable.resolvedType = "COLOR"
        THEN IF value.k = "alias"
             THEN IF target # 0
                  THEN ThemeSet(theme, "colors", tailwindKey,
                                JStr(<<"{", "colors", ".">>
                                     \o TailwindKey(h.vars[target].name) \o <<"}">>))
                  ELSE theme
             ELSE ThemeSet(theme, "colors", tailwindKey, JStr(<<"#", rgbToHex(value.s)>>))
        ELSE IF variable.resolvedType = "FLOAT"
        THEN ThemeSet(theme, FloatSection(lowerName), tailwindKey,
                      JStr(TemplateText(value) \o <<"px">>))
        ELSE IF variable.resolvedType = "STRING" /\ StringSection(lowerName) = "fontFamily"
        THEN ThemeSet(theme, "fontFamily", tailwindKey,
                      IF value.k = "string" THEN JArr(<<value.s>>)
                      ELSE JStr(TemplateText(value)))
        ELSE IF variable.resolvedType = "STRING" /\ StringSection(lowerName) = "boxShadow"
        THEN ThemeSet(theme, "boxShadow", tailwindKey, JStr(TemplateText(value)))
        ELSE theme

\* exportAsTailwind's loop over the variables of one collection, from index i
RECURSIVE TailwindVariables(_, _, _, _, _)
TailwindVariables(h, theme, collectionVariables, mode, i) ==
    IF i > Len(collectionVariables) THEN theme
    ELSE TailwindVariables(h, TailwindVariable(h, theme, collectionVariables[i], mode),
                           collectionVariables, mode, i + 1)

\* exportAsTailwind's loop over the collections, from index c
RECURSIVE TailwindCollections(_, _, _, _, _)
TailwindCollections(h, theme, collections, variables, c) ==
    IF c > Len(collections) THEN theme
    ELSE IF Len(collections[c].modes) = 0
    THEN TailwindCollections(h, theme, collections, variables, c + 1)
    ELSE TailwindCollections(
             h,
             TailwindVariables(h, theme,
                 SelectSeq(variables,
                           LAMBDA v : v.variableCollectionId = collections[c].id),
                 collections[c].modes[1], 1),
             collections, variables, c + 1)

\* themeConfig after the empty sections are deleted; the text that is posted is
\* this object written section by section
ThemeConfig(h, collections, variables) ==
    LET empty == JObj([j \in 1..Len(ThemeSections) |-> E(<<ThemeSections[j]>>, JObj(<<>>))])
        theme == TailwindCollections(h, empty, collections, variables, 1)
    IN  JObj(SelectSeq(theme.o, LAMBDA e : Len(e.val.o) > 0))

\* handleExport up to its first await: the format picks the function that runs
ExportStart(sys) ==
    [log(sys, "INFO", "starting-export", <<sys.t.format>>, <<>>, <<>>)
     EXCEPT !.t.pc = "x_cols"]

\* from the answer of getLocalVariableCollectionsAsync on
ExportFetched(sys) ==
    [sys EXCEPT !.t.allCollections = sys.h.cols, !.t.pc = "x_vars"]

\* from the answer of getLocalVariablesAsync on: the traversal and the result.
\* The CSS text is not built here, only its result message.
ExportFinish(sys) ==
    LET collections == sys.t.allCollections
        n == Len(collections)
    IN  IF sys.t.format = "css"
        THEN [Post(log(sys, "INFO", "exported-css", <<>>, <<>>, <<>>),
                   Message("export-success-css", "", "", <<>>, <<>>, <<>>, n, 0, JUndef))
              EXCEPT !.t.pc = "done"]
        ELSE IF sys.t.format = "tailwind"
        THEN [Post(log(sys, "INFO", "exported-tailwind", <<>>, <<>>, <<>>),
                   Message("export-success-tailwind", "", "", <<>>, <<>>, <<>>, n, 0,
                           ThemeConfig(sys.h, collections, sys.h.vars)))
              EXCEPT !.t.pc = "done"]
        ELSE LET r == ExportCollections(sys, JObj(<<>>), collections, sys.h.vars,
                                        sys.t.format, 1)
             IN  [Post(log(r.sys, "INFO", "exported", <<>>, <<>>, <<>>),
                       Message("export-success", "", sys.t.format, <<>>, <<>>, <<>>,
                               n, 0, r.result))
                  EXCEPT !.t.pc = "done"]

---------------------------------------------------------------------------
(* handleDeleteAll *)

DeleteStart(sys) ==
    [log(sys, "INFO", "starting-deletion", <<>>, <<>>, <<>>) EXCEPT !.t.pc = "d_cols"]

RECURSIVE DeleteLoop(_, _, _)
DeleteLoop(sys, collections, i) ==
    IF i > Len(collections) THEN sys
    ELSE DeleteLoop(log([sys EXCEPT !.h = removeCollection(@, collections[i].id)],
                        "INFO", "deleting-collection", collections[i].name, <<>>, <<>>),
                    collections, i + 1)

\* from the answer of getLocalVariableCollectionsAsync on
DeleteFinish(sys) ==
    LET collections == sys.h.cols
        s1 == IF Len(collections) = 0
              THEN log(sys, "INFO", "nothing-to-delete", <<>>, <<>>, <<>>)
              ELSE log(DeleteLoop(sys, collections, 1), "INFO", "all-deleted", <<>>, <<>>, <<>>)
    IN  [Post(s1, Message("delete-success", "", "", <<>>, <<>>, <<>>, 0, 0, JUndef))
         EXCEPT !.t.pc = "done"]

---------------------------------------------------------------------------
(* figma.ui.onmessage: one invocation per message *)

Runs == 1..MaxRuns

IdleTask ==
    [op |-> "none", pc |-> "idle", data |-> JUndef, format |-> "",
     ci |-> 0, mi |-> 0, vi |-> 0, processedCount |-> 0, variables |-> <<>>,
     collectionMap |-> <<>>, collectionModeMaps |-> <<>>, legacyDetector |-> FALSE,
     variableId |-> 0, targetCollectionName |-> <<>>, targetVariableName |-> <<>>,
     allCollections |-> <<>>]

\* invocation i as a running handler
Sys(i) == [h |-> host, t |-> tasks[i], out |-> <<>>]

\* the state after invocation i ran up to its next await
Commit(i, sys) ==
    /\ host' = sys.h
    /\ tasks' = [tasks EXCEPT ![i] = sys.t]
    /\ ui' = ui \o [j \in 1..Len(sys.out) |-> [inv |-> i, msg |-> sys.out[j]]]
    /\ UNCHANGED <<files, arg, ret>>

\* no invocation is suspended at an await
Quiet == \A j \in Runs : tasks[j].pc \in {"idle", "done"}

\* invocations are numbered in the order of their messages
NextFree(i) ==
    /\ tasks[i].pc = "idle"
    /\ \A j \in Runs : j < i => tasks[j].pc # "idle"

\* msg.type === 'import-variables'
ReceiveImport(i) ==
    /\ NextFree(i)
    /\ \E d \in files :
          Commit(i, ImportStart([Sys(i) EXCEPT !.t.op = "import", !.t.data = d, !.t.ci = 1]))

\* msg.type === 'export-variables'; a missing format is 'simplified'
ReceiveExport(i) ==
    /\ NextFree(i)
    /\ \E f \in Formats \cup {""} :
          Commit(i, ExportStart([Sys(i) EXCEPT !.t.op = "export",
                                               !.t.format = IF f = "" THEN "simplified" ELSE f]))

\* msg.type === 'delete-all'
ReceiveDeleteAll(i) ==
    /\ NextFree(i)
    /\ Commit(i, DeleteStart([Sys(i) EXCEPT !.t.op = "delete"]))

\* await figma.variables.getLocalVariableCollectionsAsync() of Pass 1 answers
ImportPass1(i) ==
    /\ tasks[i].pc = "p1_cols"
    /\ Commit(i, Pass1Collection(Sys(i)))

\* await delay(1) of Pass 2 or Pass 3 ends
ImportDelay(i) ==
    /\ tasks[i].pc \in {"p2_delay", "p3_delay"}
    /\ Commit(i, [Sys(i) EXCEPT !.t.processedCount = @ + 1,
                                !.t.pc = IF tasks[i].pc = "p2_delay" THEN "p2_vars" ELSE "p3_vars"])

\* await figma.variables.getLocalVariablesAsync() of Pass 2 answers
ImportPass2(i) ==
    /\ tasks[i].pc = "p2_vars"
    /\ Commit(i, Pass2Variable(Sys(i)))

\* await figma.variables.getLocalVariablesAsync() of Pass 3 answers
ImportPass3(i) ==
    /\ tasks[i].pc = "p3_vars"
    /\ Commit(i, Pass3Value(Sys(i)))

\* the alias's await figma.variables.getLocalVariableCollectionsAsync() answers
ImportAliasCollections(i) ==
    /\ tasks[i].pc = "p3_alias_cols"
    /\ Commit(i, [Sys(i) EXCEPT !.t.allCollections = host.cols, !.t.pc = "p3_alias_vars"])

\* the alias's await figma.variables.getLocalVariablesAsync() answers
ImportAliasVariables(i) ==
    /\ tasks[i].pc = "p3_alias_vars"
    /\ Commit(i, Pass3Alias(Sys(i)))

ExportCollectionsFetched(i) ==
    /\ tasks[i].pc = "x_cols"
    /\ Commit(i, ExportFetched(Sys(i)))

ExportVariablesFetched(i) ==
    /\ tasks[i].pc = "x_vars"
    /\ Commit(i, ExportFinish(Sys(i)))

DeleteCollectionsFetched(i) ==
    /\ tasks[i].pc = "d_cols"
    /\ Commit(i, DeleteFinish(Sys(i)))

\* the awaits on a host fetch
FetchPcs == {"p1_cols", "p2_vars", "p3_vars", "p3_alias_cols", "p3_alias_vars",
             "x_cols", "x_vars", "d_cols"}

\* the fetches the host rejected so far
Rejections ==
    Cardinality({j \in 1..Len(ui) :
                    \/ ui[j].msg.type = "error" /\ ui[j].msg.code = "rejected"
                    \/ ui[j].msg.code = "set-failed" /\ ui[j].msg.c = <<"rejected">>})

\* the host rejects the fetch invocation i awaits: the alias's fetches are inside
\* the try of one value, every other fetch is caught at the end of the handler
Reject(i) ==
    /\ tasks[i].pc \in FetchPcs
    /\ Rejections < MaxRejects
    /\ IF tasks[i].pc \in {"p3_alias_cols", "p3_alias_vars"}
       THEN Commit(i, EnterP3Var([log(Sys(i), "ERROR", "set-failed",
                                      tasks[i].variables[tasks[i].vi].key, <<>>, <<"rejected">>)
                                  EXCEPT !.t.vi = @ + 1]))
       ELSE Commit(i, Caught(Sys(i), "rejected"))

---------------------------------------------------------------------------
(* Root documents *)

A == <<"A">>
B == <<"B">>
Light == <<"Light">>
Dark == <<"Dark">>
Night == <<"Night">>

\* a leaf in the DTCG dialect, and in the legacy dialect
Token(type, value) == JObj(<<E(TagType, JStr(<<type>>)), E(TagValue, value)>>)
LegacyToken(type, value) == JObj(<<E(LegacyType, JStr(<<type>>)), E(LegacyValue, value)>>)

Red == JStr(<<"#", "FF0000">>)
Grey == JStr(<<"#", "AABBCC">>)
\* "{Collection.path}"
Ref(collection, path) == JStr(<<"{">> \o collection \o <<".">> \o path \o <<"}">>)

Group1(k1, v1) == JObj(<<E(k1, v1)>>)
Group2(k1, v1, k2, v2) == JObj(<<E(k1, v1), E(k2, v2)>>)

ColorTree == Group1(<<"a">>, Token("color", Red))

\* every sequence without repetition of at most n of the names
RECURSIVE Arrangements(_, _)
Arrangements(names, n) ==
    IF n = 0 THEN {<<>>}
    ELSE {<<>>} \cup UNION {{<<x>> \o r : r \in Arrangements(names \ {x}, n - 1)} : x \in names}

\* one collection A that declares the mode names of modeNames, each with ColorTree
ModeDocument(modeNames) ==
    Group1(A, JObj([j \in 1..Len(modeNames) |-> E(modeNames[j], ColorTree)]))

\* the documents that differ in the mode names they declare
ModeDocuments ==
    {ModeDocument(m) : m \in Arrangements({ModeOne, Light, Dark}, MaxModes)}

\* two modes, a number that does not parse, a path of the second mode only
MixedLater ==
    Group1(A, Group2(Light, Group2(<<"a">>, Token("number", JStr(<<"abc">>)),
                                   <<"b">>, Token("string", JStr(<<"x">>))),
                     Dark, Group2(<<"a">>, Token("number", JStr(<<"12">>)),
                                  <<"c">>, Token("boolean", JStr(<<"TRUE">>)))))

\* documents with aliases, values that do not fit, both dialects, several collections
MixedDocuments ==
    { MixedLater,
      \* the same name in two collections, an alias with an exact match
      Group2(A, Group1(Light, ColorTree),
             B, Group1(Light, Group2(<<"a">>, Token("color", Grey),
                                     <<"p">>, Token("color", Ref(B, <<"a">>))))),
      \* aliases to a collection that is declared later, and to none
      Group2(B, Group1(Light, Group2(<<"p">>, Token("color", Ref(A, <<"a">>)),
                                     <<"q">>, Token("color", Ref(<<"Z">>, <<"a">>)))),
             A, Group1(Light, ColorTree)),
      \* an alias no variable matches, then a plain value
      Group1(B, Group1(Light, Group2(<<"p">>, Token("color", Ref(<<"Z">>, <<"zz">>)),
                                     <<"r">>, Token("boolean", JBool(TRUE))))),
      \* legacy tags, a nested group
      Group1(A, Group1(Light, Group2(<<"a">>, LegacyToken("color", Red),
                                     <<"g">>, Group1(<<"b">>, LegacyToken("number", JNum("12")))))),
      \* the values of the full spec, a hex text that is none, an empty name
      Group1(A, Group1(ModeOne,
          JObj(<<E(<<"c">>, Token("color", JObj(<<E(<<"colorSpace">>, JStr(<<"srgb">>)),
                                                  E(<<"components">>, JArr(<<"1", "0", "0">>))>>))),
                 E(<<"d">>, Token("dimension", JObj(<<E(<<"value">>, JNum("12")),
                                                      E(<<"unit">>, JStr(<<"px">>))>>))),
                 E(<<"e">>, Token("Color", JStr(<<"#", "zz">>))),
                 E(<<>>, Token("string", JStr(<<"x">>)))>>))),
      \* a collection without modes after one with modes
      Group2(A, Group1(Light, ColorTree), B, JObj(<<>>)) }

---------------------------------------------------------------------------
(* Specifications *)

NoArg == [data |-> JUndef, h |-> EmptyHost]
NoRet == [stage |-> "none", h |-> EmptyHost]

\* the user has one of the mode documents, or all the mixed documents
FilePools == {{d} : d \in ModeDocuments} \cup {MixedDocuments}

Init ==
    /\ host = EmptyHost
    /\ tasks = [i \in Runs |-> IdleTask]
    /\ ui = <<>>
    /\ files \in FilePools
    /\ arg = NoArg
    /\ ret = NoRet

\* a message is handled only when no handler is suspended
Next ==
    \/ \E i \in Runs : Quiet /\ ReceiveImport(i)
    \/ \E i \in Runs : Quiet /\ ReceiveExport(i)
    \/ \E i \in Runs : Quiet /\ ReceiveDeleteAll(i)
    \/ \E i \in Runs : ImportPass1(i)
    \/ \E i \in Runs : ImportDelay(i)
    \/ \E i \in Runs : ImportPass2(i)
    \/ \E i \in Runs : ImportPass3(i)
    \/ \E i \in Runs : ImportAliasCollections(i)
    \/ \E i \in Runs : ImportAliasVariables(i)
    \/ \E i \in Runs : ExportCollectionsFetched(i)
    \/ \E i \in Runs : ExportVariablesFetched(i)
    \/ \E i \in Runs : DeleteCollectionsFetched(i)

Spec == Init /\ [][Next]_vars

\* the same, with a host that may reject a fetch
NextFaulty ==
    \/ Next
    \/ \E i \in Runs : Reject(i)

SpecFaulty == Init /\ [][NextFaulty]_vars

---------------------------------------------------------------------------
(* Token trees, and the two pure computations run on them *)

\* every tree with exactly n keys in all, over these keys and leaves; a group may be
\* empty, the keys of one group differ
RECURSIVE TreesOfSize(_, _, _)
TreesOfSize(n, keys, leaves) ==
    IF n = 0 THEN {JObj(<<>>)}
    ELSE UNION {
           {JObj(<<E(k, c)>> \o rest.o) :
               k \in {x \in keys : \A j \in 1..Len(rest.o) : rest.o[j].key # x},
               c \in IF size = 1 THEN leaves \cup {JObj(<<>>)}
                     ELSE TreesOfSize(size - 1, keys, leaves)}
           : <<size, rest>> \in
               UNION {{<<z, r>> : r \in TreesOfSize(n - z, keys, leaves)} : z \in 1..n} }

TreeKeys == {<<"a">>, <<"b">>, <<>>, <<"_", "m">>}

\* leaves of both dialects, without a description, with one, with an empty one
TreeLeaves ==
    { Token("color", Red),
      JObj(<<E(TagType, JStr(<<"color">>)), E(TagValue, Red),
             E(TagDescription, JStr(<<"d">>))>>),
      JObj(<<E(TagType, JStr(<<"number">>)), E(TagValue, JNum("12")),
             E(TagDescription, JStr(<<>>))>>),
      LegacyToken("number", JNum("12")),
      JObj(<<E(LegacyType, JStr(<<"color">>)), E(LegacyValue, Red),
             E(LegacyDescription, JStr(<<"d">>))>>),
      JObj(<<E(LegacyType, JStr(<<"string">>)), E(LegacyValue, JStr(<<"x">>)),
             E(LegacyDescription, JStr(<<>>))>>) }

\* the token trees of depth at least 1
TokenTrees == UNION {TreesOfSize(n, TreeKeys, TreeLeaves) : n \in 1..MaxNodes}

InitCodec ==
    /\ host = EmptyHost
    /\ tasks = [i \in Runs |-> IdleTask]
    /\ ui = <<>>
    /\ files = {}
    /\ arg \in TokenTrees
    /\ ret = [stage |-> "none"]

\* flattenVariables(arg)
Flatten ==
    /\ ret.stage = "none"
    /\ ret' = [stage |-> "flat", map |-> flattenVariables(arg, <<>>, FALSE).result]
    /\ UNCHANGED <<host, tasks, ui, files, arg>>

\* the nesting loop of handleExport over the flattened map, from an empty mode object
Reconstruct ==
    /\ ret.stage = "flat"
    /\ ret' = [stage |-> "tree", map |-> ret.map, tree |-> NestAll(JObj(<<>>), ret.map)]
    /\ UNCHANGED <<host, tasks, ui, files, arg>>

NextCodec == Flatten \/ Reconstruct

SpecCodec == InitCodec /\ [][NextCodec]_vars

\* a leaf with its DTCG tags renamed to the legacy tags
LegacyLeaf(leaf) ==
    JObj([j \in 1..Len(leaf.o) |->
            E(IF leaf.o[j].key \in {TagType, TagValue, TagDescription}
              THEN Tail(leaf.o[j].key) ELSE leaf.o[j].key,
              leaf.o[j].val)])

\* a tree with every leaf in the legacy dialect
RECURSIVE LegacyTree(_)
LegacyTree(tree) ==
    JObj([j \in 1..Len(tree.o) |->
            E(tree.o[j].key,
              IF ~IsObject(tree.o[j].val) THEN tree.o[j].val
              ELSE IF isVariable(tree.o[j].val) THEN LegacyLeaf(tree.o[j].val)
              ELSE LegacyTree(tree.o[j].val))])

\* a root document with every leaf in the legacy dialect
LegacyDocument(data) ==
    JObj([c \in 1..Len(data.o) |->
            E(data.o[c].key,
              JObj([m \in 1..Len(data.o[c].val.o) |->
                      E(data.o[c].val.o[m].key, LegacyTree(data.o[c].val.o[m].val))]))])

DialectKeys == {<<"a">>, <<"b">>, <<"_", "m">>}

\* leaves of the DTCG dialect: a hex color, an alias, tags that are empty texts
DialectLeaves ==
    { Token("color", Grey),
      Token("color", Ref(A, <<"a">>)),
      JObj(<<E(TagType, JStr(<<"number">>)), E(TagValue, JStr(<<"1.5">>)),
             E(TagDescription, JStr(<<"d">>))>>),
      JObj(<<E(TagType, JStr(<<"boolean">>)), E(TagValue, JBool(FALSE)),
             E(TagDescription, JStr(<<>>))>>),
      JObj(<<E(TagType, JStr(<<>>)), E(TagValue, JNull)>>) }

\* one collection A with the modes Light and Dark: a tree, and the tree of one leaf
DialectDocuments ==
    {Group1(A, Group2(Light, t, Dark, Group1(<<"a">>, Token("color", Red)))) :
        t \in UNION {TreesOfSize(n, DialectKeys, DialectLeaves) : n \in 1..MaxNodes}}

\* an empty host, and one where the user has a collection A with a number a
DialectHosts ==
    {EmptyHost, createVariable(createVariableCollection(EmptyHost, A), <<"a">>, 1, "FLOAT")}

\* arg: the document in the DTCG dialect and the host both imports start from;
\* ret: the host the first import left
InitDialect ==
    /\ arg \in {[data |-> d, h |-> h] : d \in DialectDocuments, h \in DialectHosts}
    /\ host = arg.h
    /\ tasks = [i \in Runs |-> IdleTask]
    /\ ui = <<>>
    /\ files = {}
    /\ ret = [stage |-> "none", h |-> EmptyHost]

\* msg.type === 'import-variables' with the document in the DTCG dialect
ReceiveDTCG ==
    /\ tasks[1].pc = "idle"
    /\ Commit(1, ImportStart([Sys(1) EXCEPT !.t.op = "import", !.t.data = arg.data,
                                            !.t.ci = 1]))

\* the same message with the document in the legacy dialect, the host being again
\* what it was before the first import
ReceiveLegacy ==
    /\ tasks[1].pc = "done"
    /\ tasks[2].pc = "idle"
    /\ LET sys == ImportStart([h |-> arg.h,
                               t |-> [tasks[2] EXCEPT !.op = "import",
                                                      !.data = LegacyDocument(arg.data),
                                                      !.ci = 1],
                               out |-> <<>>])
       IN  /\ host' = sys.h
           /\ tasks' = [tasks EXCEPT ![2] = sys.t]
           /\ ui' = ui \o [j \in 1..Len(sys.out) |-> [inv |-> 2, msg |-> sys.out[j]]]
           /\ ret' = [stage |-> "dtcg", h |-> host]
           /\ UNCHANGED <<files, arg>>

NextDialect ==
    \/ ReceiveDTCG
    \/ ReceiveLegacy
    \/ \E i \in Runs : ImportPass1(i)
    \/ \E i \in Runs : ImportDelay(i)
    \/ \E i \in Runs : ImportPass2(i)
    \/ \E i \in Runs : ImportPass3(i)
    \/ \E i \in Runs : ImportAliasCollections(i)
    \/ \E i \in Runs : ImportAliasVariables(i)

SpecDialect == InitDialect /\ [][NextDialect]_vars

---------------------------------------------------------------------------
(* Documents that differ in the tags of their leaves *)

\* a leaf with the legacy tags and "$type" besides
MixedLeaf(type, value) ==
    JObj(<<E(LegacyType, JStr(<<type>>)), E(LegacyValue, value),
           E(TagType, JStr(<<type>>))>>)

TwoLegacyLeaves ==
    Group1(A, Group1(Light, Group2(<<"a">>, LegacyToken("color", Red),
                                   <<"b">>, LegacyToken("number", JNum("12")))))

LegacyDocuments ==
    { TwoLegacyLeaves,
      \* a legacy leaf in the second mode only
      Group1(A, Group2(Light, ColorTree,
                       Dark, Group1(<<"a">>, LegacyToken("color", Grey)))),
      \* a legacy leaf in the second collection only, inside a group
      Group2(A, Group1(Light, ColorTree),
             B, Group1(Light, Group1(<<"g">>, Group1(<<"b">>, LegacyToken("string", JStr(<<"x">>)))))),
      \* a legacy leaf under a key that is skipped, and a leaf with tags of both kinds
      Group1(A, Group1(Light,
          JObj(<<E(<<"a">>, MixedLeaf("color", Red)),
                 E(<<"_", "m">>, Group1(<<"b">>, LegacyToken("color", Grey))),
                 E(<<"c">>, Token("boolean", JBool(FALSE)))>>))) }

\* a leaf with the explicit alias fields besides its tags
ExplicitAlias(type, value, targetCollection, targetVariable) ==
    JObj(<<E(TagType, JStr(<<type>>)), E(TagValue, value),
           E(<<"targetCollection">>, JStr(targetCollection)),
           E(<<"targetVariable">>, JStr(targetVariable))>>)

ExplicitDocuments ==
    { \* the explicit fields beside a plain value
      Group1(A, Group1(Light, Group2(<<"a">>, Token("color", Red),
                                     <<"p">>, ExplicitAlias("color", Grey, A, <<"a">>)))),
      \* the explicit fields beside a brace text that names another variable
      Group1(A, Group1(Light,
          JObj(<<E(<<"a">>, Token("color", Red)),
                 E(<<"b">>, Token("color", Grey)),
                 E(<<"p">>, ExplicitAlias("color", Ref(A, <<"b">>), A, <<"a">>))>>))),
      \* the explicit fields alone
      Group1(A, Group1(Light,
          Group2(<<"a">>, Token("color", Red),
                 <<"p">>, JObj(<<E(<<"targetCollection">>, JStr(A)),
                                 E(<<"targetVariable">>, JStr(<<"a">>))>>)))) }

TypeDocuments ==
    { \* tags in several spellings, an unknown tag, an empty tag; other tags in Dark
      Group1(A, Group2(Light,
          JObj(<<E(<<"a">>, Token("Color", Red)),
                 E(<<"n">>, Token("NUMBER", JNum("12"))),
                 E(<<"t">>, LegacyToken("boolean", JBool(TRUE))),
                 E(<<"d">>, Token("dimension", JStr(<<"x">>))),
                 E(<<"u">>, JObj(<<E(TagType, JStr(<<>>)), E(TagValue, JStr(<<"x">>))>>))>>),
                       Dark,
          Group2(<<"a">>, Token("number", JNum("12")),
                 <<"n">>, Token("color", Red)))),
      \* the same paths with other tags
      Group1(A, Group1(Light, Group2(<<"a">>, Token("number", JNum("12")),
                                     <<"n">>, Token("string", JStr(<<"x">>))))) }

TokenPools == {LegacyDocuments, ExplicitDocuments, TypeDocuments}

InitTokens ==
    /\ host = EmptyHost
    /\ tasks = [i \in Runs |-> IdleTask]
    /\ ui = <<>>
    /\ files \in TokenPools
    /\ arg = NoArg
    /\ ret = NoRet

SpecTokens == InitTokens /\ [][Next]_vars

---------------------------------------------------------------------------
(* Imports and exports of names where one is a "/"-prefix of another *)

\* documents whose keys hold "/": one path is a "/"-prefix of the other
PrefixDocuments ==
    { JObj(<<E(A, Group1(Light,
          JObj(<<E(<<"a">>, Token("color", Red)),
                 E(<<"a", "/", "b">>, Token("color", Grey)),
                 E(<<"p">>, Token("color", Ref(A, <<"a", ".", "b">>)))>>)))>>),
      Group1(A, Group1(Light, Group2(<<"a", "/", "b">>, Token("color", Grey),
                                     <<"a">>, Token("color", Red)))) }

InitPrefix ==
    /\ host = EmptyHost
    /\ tasks = [i \in Runs |-> IdleTask]
    /\ ui = <<>>
    /\ files = PrefixDocuments
    /\ arg = NoArg
    /\ ret = NoRet

SpecPrefix == InitPrefix /\ [][Next]_vars

---------------------------------------------------------------------------
(* An export imported into an empty host *)

ResolvedTypes == {"COLOR", "FLOAT", "BOOLEAN", "STRING"}

\* a value of each resolved type
TypedValue(resolvedType) ==
    CASE resolvedType = "COLOR" -> HVal("color", <<"1", "0", "0", "1">>, 0)
      [] resolvedType = "FLOAT" -> HVal("float", <<"12">>, 0)
      [] resolvedType = "BOOLEAN" -> HVal("bool", <<"true">>, 0)
      [] OTHER -> HVal("string", <<"x">>, 0)

\* the host after the user made one more variable, named after its type, with a value
WithTyped(h, resolvedType) ==
    LET h1 == createVariable(h, <<"g", "/", LowerTok(resolvedType)>>,
                             h.cols[1].id, resolvedType)
    IN  setValueForMode(h1, h1.vars[Len(h1.vars)].id, h1.cols[1].modes[1].modeId,
                        TypedValue(resolvedType))

\* a host with one collection and one variable of each of the types
RECURSIVE TypedHost(_)
TypedHost(types) ==
    IF types = <<>> THEN createVariableCollection(EmptyHost, A)
    ELSE WithTyped(TypedHost(SubSeq(types, 1, Len(types) - 1)), types[Len(types)])

\* a host whose second variable is an alias of the first
AliasedHost ==
    LET h1 == TypedHost(<<"FLOAT">>)
        h2 == createVariable(h1, <<"p">>, h1.cols[1].id, "FLOAT")
    IN  setValueForMode(h2, h2.vars[2].id, h2.cols[1].modes[1].modeId,
                        createVariableAlias(h2.vars[1]))

TypedHosts ==
    {TypedHost(<<T>>) : T \in ResolvedTypes}
        \cup {TypedHost(<<"COLOR", "FLOAT", "BOOLEAN", "STRING">>), AliasedHost}

InitRoundTrip ==
    /\ arg \in {[data |-> JUndef, h |-> h] : h \in TypedHosts}
    /\ host = arg.h
    /\ tasks = [i \in Runs |-> IdleTask]
    /\ ui = <<>>
    /\ files = {}
    /\ ret = NoRet

\* msg.type === 'import-variables' with the data of the export that just ended, in
\* a file that holds no collection
ReceiveExported ==
    /\ tasks[1].pc = "done"
    /\ tasks[2].pc = "idle"
    /\ ui[Len(ui)].msg.type = "export-success"
    /\ LET sys == ImportStart([h |-> EmptyHost,
                               t |-> [tasks[2] EXCEPT !.op = "import",
                                                      !.data = ui[Len(ui)].msg.data,
                                                      !.ci = 1],
                               out |-> <<>>])
       IN  /\ host' = sys.h
           /\ tasks' = [tasks EXCEPT ![2] = sys.t]
           /\ ui' = ui \o [j \in 1..Len(sys.out) |-> [inv |-> 2, msg |-> sys.out[j]]]
           /\ ret' = [stage |-> "exported", h |-> host]
           /\ UNCHANGED <<files, arg>>

NextRoundTrip ==
    \/ ReceiveExport(1)
    \/ ExportCollectionsFetched(1)
    \/ ExportVariablesFetched(1)
    \/ ReceiveExported
    \/ ImportPass1(2)
    \/ ImportDelay(2)
    \/ ImportPass2(2)
    \/ ImportPass3(2)
    \/ ImportAliasCollections(2)
    \/ ImportAliasVariables(2)

SpecRoundTrip == InitRoundTrip /\ [][NextRoundTrip]_vars

---------------------------------------------------------------------------
(* An export after the user removed variables *)

\* variable.remove(), done by the user in the host's own panel
removeVariable(h, varId) ==
    [h EXCEPT !.vars = SelectSeq(@, LAMBDA v : v.id # varId)]

\* two modes, an alias to a variable two groups deep and an alias to a plain one
AliasTree ==
    JObj(<<E(<<"g">>, Group1(<<"h">>, Group1(<<"a">>, Token("color", Red)))),
           E(<<"b">>, Token("color", Grey)),
           E(<<"p">>, Token("color", Ref(A, <<"g", ".", "h", ".", "a">>))),
           E(<<"q">>, Token("color", Ref(A, <<"b">>)))>>)

AliasDocuments ==
    { Group1(A, Group2(Light, AliasTree, Dark, AliasTree)),
      \* an alias into another collection
      Group2(A, Group1(Light, ColorTree),
             B, Group1(Light, Group1(<<"p">>, Token("color", Ref(A, <<"a">>))))) }

InitStore ==
    /\ host = EmptyHost
    /\ tasks = [i \in Runs |-> IdleTask]
    /\ ui = <<>>
    /\ files = AliasDocuments
    /\ arg = NoArg
    /\ ret = NoRet

\* between two messages the user removes a variable
UserRemovesVariable(v) ==
    /\ Quiet
    /\ v \in 1..Len(host.vars)
    /\ host' = removeVariable(host, host.vars[v].id)
    /\ UNCHANGED <<tasks, ui, files, arg, ret>>

NextStore ==
    \/ Next
    \/ \E v \in 1..Len(host.vars) : UserRemovesVariable(v)

SpecStore == InitStore /\ [][NextStore]_vars

---------------------------------------------------------------------------
(* Exports of a host that holds one FLOAT variable; names are written letter by letter *)

NameWords ==
    { <<"S", "p", "a", "c", "i", "n", "g">>,
      <<"S", "p", "a", "c", "e">>,
      <<"G", "A", "P">>,
      <<"M", "a", "r", "g", "i", "n">>,
      <<"P", "a", "d", "d", "i", "n", "g">>,
      <<"F", "o", "n", "t">>,
      <<"S", "i", "z", "e">>,
      <<"R", "a", "d", "i", "u", "s">>,
      <<"R", "o", "u", "n", "d", "e", "d">>,
      <<"O", "p", "a", "c", "i", "t", "y">>,
      <<"B", "u", "t", "t", "o", "n">>,
      <<"S", "m", "a", "l", "l">>,
      <<"D", "i", "s", "a", "b", "l", "e", "d">>,
      <<"A", "e", "r", "o", "s", "p", "a", "c", "e">>,
      <<"W", "e", "i", "g", "h", "t">> }

\* names of one and of two segments, and three segments for "Spacing/Gap/Small"
FloatNames ==
    NameWords
    \cup {x \o <<"/">> \o y : x \in NameWords, y \in NameWords}
    \cup {<<"S", "p", "a", "c", "i", "n", "g">> \o <<"/">> \o <<"G", "a", "p">> \o <<"/">> \o <<"S", "m", "a", "l", "l">>}

\* a collection A with the FLOAT variable of this name set to 12
FloatHost(name) ==
    LET h1 == createVariableCollection(EmptyHost, A)
        h2 == createVariable(h1, name, h1.cols[1].id, "FLOAT")
    IN  setValueForMode(h2, h2.vars[1].id, h2.cols[1].modes[1].modeId,
                        HVal("float", <<"12">>, 0))

InitTailwind ==
    /\ host \in {FloatHost(name) : name \in FloatNames}
    /\ tasks = [i \in Runs |-> IdleTask]
    /\ ui = <<>>
    /\ files = {}
    /\ arg = NoArg
    /\ ret = NoRet

NextTailwind ==
    \/ \E i \in Runs : Quiet /\ ReceiveExport(i)
    \/ \E i \in Runs : ExportCollectionsFetched(i)
    \/ \E i \in Runs : ExportVariablesFetched(i)

SpecTailwind == InitTailwind /\ [][NextTailwind]_vars

---------------------------------------------------------------------------
(* Messages that arrive while a handler is suspended: onmessage has no guard *)

\* documents that name the same collection and the same paths
OverlapDocuments ==
    { Group1(A, Group1(Light, Group2(<<"a">>, Token("color", Red),
                                     <<"b">>, Token("color", Red)))),
      Group1(A, Group1(Light, Group2(<<"a">>, Token("color", Grey),
                                     <<"b">>, Token("color", Ref(A, <<"a">>))))) }

InitOverlap ==
    /\ host = EmptyHost
    /\ tasks = [i \in Runs |-> IdleTask]
    /\ ui = <<>>
    /\ files = OverlapDocuments
    /\ arg = NoArg
    /\ ret = NoRet

\* an import message is handled when it arrives, whatever the earlier handlers do
NextOverlap ==
    \/ \E i \in Runs : ReceiveImport(i)
    \/ \E i \in Runs : ImportPass1(i)
    \/ \E i \in Runs : ImportDelay(i)
    \/ \E i \in Runs : ImportPass2(i)
    \/ \E i \in Runs : ImportPass3(i)
    \/ \E i \in Runs : ImportAliasCollections(i)
    \/ \E i \in Runs : ImportAliasVariables(i)

SpecOverlap == InitOverlap /\ [][NextOverlap]_vars

---------------------------------------------------------------------------
(* What the claims speak of *)

\* invocation i has ended
Done(i) == tasks[i].pc = "done"

\* invocation i has ended and no later message has arrived
After(i) == Done(i) /\ \A j \in Runs : j > i => tasks[j].pc = "idle"

\* the messages invocation i posted, in order
Posted(i) == SelectSeq(ui, LAMBDA x : x.inv = i)

\* the first n invocations import the same document
SameDocumentRuns(n) ==
    /\ n <= MaxRuns
    /\ \A k \in 1..n : tasks[k].op = "import" /\ tasks[k].data = tasks[1].data

\* a collection of the host has a mode named "Mode 1"
HostHasModeOne ==
    \E c \in 1..Len(host.cols) :
        \E m \in 1..Len(host.cols[c].modes) : host.cols[c].modes[m].name = ModeOne

EveryCollectionDeclaresAMode(data) ==
    \A c \in 1..Len(data.o) : Len(data.o[c].val.o) >= 1

DeclaresModeOne(data) ==
    \E c \in 1..Len(data.o) :
        \E m \in 1..Len(data.o[c].val.o) : data.o[c].val.o[m].key = ModeOne

\* invocation i posted a log with this code
Logged(i, code) ==
    \E j \in 1..Len(ui) : ui[j].inv = i /\ ui[j].msg.type = "log" /\ ui[j].msg.code = code

---------------------------------------------------------------------------
\* C1 as stated: after one import into an empty host, and after a second import of
\* the same document, no collection has a mode named "Mode 1", for every document
\* whose collections each declare at least one mode name.
C1_NoModeOneLeft ==
    \A n \in {1, 2} :
        (SameDocumentRuns(n) /\ After(n) /\ EveryCollectionDeclaresAMode(tasks[1].data))
            => ~HostHasModeOne

\* C1, amended: the same, for the documents that do not themselves declare a mode
\* named "Mode 1".
C1_NoModeOneLeftUnlessDeclared ==
    \A n \in {1, 2} :
        (/\ SameDocumentRuns(n) /\ After(n)
         /\ EveryCollectionDeclaresAMode(tasks[1].data)
         /\ ~DeclaresModeOne(tasks[1].data))
            => ~HostHasModeOne

\* the first run renamed the default mode and the same document was imported again
C1_Witness ==
    /\ SameDocumentRuns(2) /\ After(2)
    /\ EveryCollectionDeclaresAMode(tasks[1].data)
    /\ ~DeclaresModeOne(tasks[1].data)
    /\ Logged(1, "renamed-default")
    /\ Len(host.cols) > 0


---------------------------------------------------------------------------
(* Steps *)

\* this step is one of invocation i
Stepping(i) == tasks'[i] # tasks[i]

\* the positions in ui' of the messages this step posted
NewPositions == (Len(ui) + 1)..Len(ui')

\* the last message invocation i posted has this type
EndedWith(i, type) ==
    /\ Done(i)
    /\ Len(Posted(i)) > 0
    /\ Posted(i)[Len(Posted(i))].msg.type = type

Least(S) == CHOOSE x \in S : \A y \in S : x <= y

---------------------------------------------------------------------------
\* (collection name, mode name, mode id) of every mode of the host
ModeTriples(h) ==
    UNION {{<<h.cols[c].name, h.cols[c].modes[m].name, h.cols[c].modes[m].modeId>> :
                m \in 1..Len(h.cols[c].modes)} : c \in 1..Len(h.cols)}

\* C2: when a document was imported with success into an empty host, no step of a
\* second import of the same document creates a collection, adds a mode or renames
\* a mode, and the set of (collection name, mode name, mode id) stays what it was.
C2_SecondImportKeepsModes ==
    [][\A i \in {2} :
          (/\ Stepping(i)
           /\ tasks'[1].op = "import" /\ tasks'[i].op = "import"
           /\ tasks'[i].data = tasks'[1].data
           /\ EndedWith(1, "import-success"))
          => /\ ModeTriples(host') = ModeTriples(host)
             /\ \A j \in NewPositions :
                   ui'[j].msg.code \notin {"creating-collection", "adding-mode",
                                           "renamed-default"}]_vars

---------------------------------------------------------------------------
\* invocation i awaits the variables of an alias whose target's name no variable has
AliasTargetMissing(i) ==
    /\ tasks[i].pc = "p3_alias_vars"
    /\ \A v \in 1..Len(host.vars) : host.vars[v].name # tasks[i].targetVariableName

C3_Step ==
    \A i \in Runs :
        (AliasTargetMissing(i) /\ Stepping(i))
        => /\ host' = host
           /\ Cardinality({j \in NewPositions :
                              /\ ui'[j].msg.type = "log"
                              /\ ui'[j].msg.level \in {"WARN", "ERROR"}
                              /\ ui'[j].msg.code # "legacy-format"}) = 1
           /\ \E j \in NewPositions :
                 /\ ui'[j].msg.level = "WARN"
                 /\ ui'[j].msg.code = "alias-not-found"
                 /\ ui'[j].msg.a = tasks[i].targetVariableName
                 /\ ui'[j].msg.b = tasks[i].targetCollectionName
           /\ \A j \in NewPositions : ui'[j].msg.type # "error"

C3_End ==
    \A i \in Runs :
        (Done(i) /\ tasks[i].op = "import" /\ Logged(i, "alias-not-found"))
        => EndedWith(i, "import-success")

\* C3: when Pass 3 meets an alias whose target is found neither exactly nor by name,
\* it logs exactly one WARN for that token, naming the target, writes nothing to the
\* host, and the import still ends with import-success.
C3_UnresolvedAliasSkipped == [][C3_Step]_vars /\ []C3_End

\* an import skipped an alias, went on and ended with success
C3_Witness ==
    \E i \in Runs :
        /\ tasks[i].op = "import"
        /\ Logged(i, "alias-not-found")
        /\ EndedWith(i, "import-success")
        /\ \E v \in 1..Len(host.vars) :
              \E m \in 1..Len(host.vars[v].valuesByMode) :
                 host.vars[v].valuesByMode[m].value = HVal("bool", <<"true">>, 0)

---------------------------------------------------------------------------
\* the variables of the host that match the alias invocation i resolves: by
\* collection and name, and by name alone
ExactMatches(i) ==
    {v \in 1..Len(host.vars) :
        /\ host.vars[v].name = tasks[i].targetVariableName
        /\ \E c \in 1..Len(host.cols) :
              /\ host.cols[c].name = tasks[i].targetCollectionName
              /\ host.cols[c].id = host.vars[v].variableCollectionId}

NameMatches(i) ==
    {v \in 1..Len(host.vars) : host.vars[v].name = tasks[i].targetVariableName}

\* C4: an alias is set to the variable of the named collection with the named path
\* when there is one, and then no fuzzy-match WARN is logged; otherwise it is set to
\* the first variable with that name, and exactly one WARN names the expected
\* collection and the collection the variable was found in.
C4_ExactMatchPreferred ==
    [][\A i \in Runs :
          (tasks[i].pc = "p3_alias_vars" /\ NameMatches(i) # {} /\ Stepping(i))
          => LET exact == ExactMatches(i) # {}
                 target == host.vars[IF exact THEN Least(ExactMatches(i))
                                     ELSE Least(NameMatches(i))]
                 fuzzy == {j \in NewPositions : ui'[j].msg.code = "fuzzy-match"}
             IN  /\ ValueByMode(host'.vars[VarIndex(host', tasks[i].variableId)],
                                CurrentModeId(tasks[i]))
                       = HVal("alias", <<>>, target.id)
                 /\ exact => fuzzy = {}
                 /\ ~exact =>
                       /\ Cardinality(fuzzy) = 1
                       /\ \A j \in fuzzy :
                             /\ ui'[j].msg.level = "WARN"
                             /\ ui'[j].msg.b = tasks[i].targetCollectionName
                             /\ \E c \in 1..Len(host.cols) :
                                   /\ host.cols[c].id = target.variableCollectionId
                                   /\ host.cols[c].name = ui'[j].msg.c]_vars

\* one alias was resolved by name alone, and one exactly although an earlier
\* variable of another collection has the same name
C4_Witness ==
    /\ \E j \in 1..Len(ui) : ui[j].msg.code = "fuzzy-match"
    /\ \E v, w, u \in 1..Len(host.vars) :
          /\ u < w
          /\ host.vars[u].name = host.vars[w].name
          /\ \E m \in 1..Len(host.vars[v].valuesByMode) :
                host.vars[v].valuesByMode[m].value = HVal("alias", <<>>, host.vars[w].id)

---------------------------------------------------------------------------
NoDuplicates ==
    /\ \A c, d \in 1..Len(host.cols) : c # d => host.cols[c].name # host.cols[d].name
    /\ \A v, w \in 1..Len(host.vars) :
          v # w => \/ host.vars[v].name # host.vars[w].name
                   \/ host.vars[v].variableCollectionId # host.vars[w].variableCollectionId

CreatesOnlyAbsent ==
    \A i \in Runs :
        (Stepping(i) /\ tasks'[i].op = "import")
        => /\ \A c \in 1..Len(host'.cols) :
                 (\A d \in 1..Len(host.cols) : host.cols[d].id # host'.cols[c].id)
                 => \A d \in 1..Len(host.cols) : host.cols[d].name # host'.cols[c].name
           /\ \A v \in 1..Len(host'.vars) :
                 (\A w \in 1..Len(host.vars) : host.vars[w].id # host'.vars[v].id)
                 => \A w \in 1..Len(host.vars) :
                       \/ host.vars[w].name # host'.vars[v].name
                       \/ host.vars[w].variableCollectionId
                             # host'.vars[v].variableCollectionId

\* C7: a collection is created only when the host has none with that name, a variable
\* only when the host has none with that name in that collection; the host never
\* holds two collections with one name nor two variables with one name in one
\* collection.
C7_Upsert == []NoDuplicates /\ [][CreatesOnlyAbsent]_vars

\* a second import of a document found what the first had created
C7_Witness ==
    /\ SameDocumentRuns(2)
    /\ EndedWith(1, "import-success") /\ EndedWith(2, "import-success")
    /\ Logged(1, "creating-collection") /\ Logged(1, "creating-variable")
    /\ ~Logged(2, "creating-collection") /\ ~Logged(2, "creating-variable")
    /\ Len(host.cols) > 0 /\ Len(host.vars) > 0

---------------------------------------------------------------------------
\* what is in h is still in g, and is what it was but for the values and for the
\* name of a mode that was named "Mode 1"
Kept(h, g) ==
    /\ \A c \in 1..Len(h.cols) :
          \E d \in 1..Len(g.cols) :
             /\ g.cols[d].id = h.cols[c].id
             /\ g.cols[d].name = h.cols[c].name
             /\ \A m \in 1..Len(h.cols[c].modes) :
                   \E n \in 1..Len(g.cols[d].modes) :
                      /\ g.cols[d].modes[n].modeId = h.cols[c].modes[m].modeId
                      /\ \/ g.cols[d].modes[n].name = h.cols[c].modes[m].name
                         \/ h.cols[c].modes[m].name = ModeOne
    /\ \A v \in 1..Len(h.vars) :
          \E w \in 1..Len(g.vars) :
             /\ g.vars[w].id = h.vars[v].id
             /\ g.vars[w].name = h.vars[v].name
             /\ g.vars[w].variableCollectionId = h.vars[v].variableCollectionId
             /\ g.vars[w].resolvedType = h.vars[v].resolvedType
             /\ g.vars[w].description = h.vars[v].description
             /\ \A m \in 1..Len(h.vars[v].valuesByMode) :
                   HasMode(g.vars[w], h.vars[v].valuesByMode[m].modeId)

\* C8: no step of an import removes a collection, a mode or a variable, nor changes
\* the id, name, collection or resolved type of a variable there was; of what there
\* was it changes only values and the name of a mode that was named "Mode 1".
C8_ImportKeepsWhatExists ==
    [][\A i \in Runs : (Stepping(i) /\ tasks'[i].op = "import") => Kept(host, host')]_vars

\* a second import renamed the default mode of a collection the first had filled
C8_Witness ==
    /\ tasks[1].op = "import" /\ EndedWith(1, "import-success")
    /\ tasks[2].op = "import" /\ EndedWith(2, "import-success")
    /\ Logged(2, "renamed-default") /\ Logged(2, "adding-mode")
    /\ ~Logged(2, "creating-collection")
    /\ Len(host.vars) > 0

---------------------------------------------------------------------------
\* invocation i is about to set a FLOAT variable to a text that starts with no number
NumberWillNotParse(i) ==
    /\ tasks[i].pc = "p3_vars"
    /\ LET t == tasks[i]
           value == t.variables[t.vi].val.value
           colId == MapGet(t.collectionMap, t.data.o[t.ci].key)
       IN  /\ value.k = "str"
           /\ ~(StartsWith(value.s, "{") /\ EndsWith(value.s, "}"))
           /\ (Len(value.s) = 0 \/ value.s[1] \notin NumberTokens)
           /\ \E v \in 1..Len(host.vars) :
                 /\ host.vars[v].name = t.variables[t.vi].key
                 /\ host.vars[v].variableCollectionId = colId
                 /\ host.vars[v].resolvedType = "FLOAT"

\* this step of invocation i logged that a value could not be set
SetFailed(i) ==
    /\ Stepping(i)
    /\ tasks[i].pc \in {"p3_vars", "p3_alias_vars"}
    /\ \E j \in NewPositions : ui'[j].msg.code = "set-failed"

C9_Step ==
    \A i \in Runs :
        /\ (NumberWillNotParse(i) /\ Stepping(i)) => SetFailed(i)
        /\ SetFailed(i)
           => /\ Cardinality({j \in NewPositions : ui'[j].msg.code = "set-failed"}) = 1
              /\ \A j \in NewPositions :
                    ui'[j].msg.code = "set-failed"
                    => /\ ui'[j].msg.level = "ERROR"
                       /\ ui'[j].msg.a = tasks[i].variables[tasks[i].vi].key
              /\ host' = host
              /\ tasks'[i] = EnterP3Var([Sys(i) EXCEPT !.t.vi = @ + 1]).t

C9_End ==
    \A i \in Runs :
        (Done(i) /\ tasks[i].op = "import" /\ Logged(i, "set-failed"))
        => EndedWith(i, "import-success")

---------------------------------------------------------------------------
Terminal(msg) ==
    msg.type \in {"import-success", "error", "export-success", "export-success-css",
                  "export-success-tailwind"}

\* the success message of an invocation
SuccessOf(t) ==
    IF t.op = "import" THEN "import-success"
    ELSE IF t.format = "css" THEN "export-success-css"
    ELSE IF t.format = "tailwind" THEN "export-success-tailwind"
    ELSE "export-success"

\* C10: an import or export that has ended posted exactly one terminal message, as
\* its last message: its own success message, or "error" right after one ERROR log of
\* the same exception; one that has not ended posted none.
C10_OneTerminalMessage ==
    \A i \in Runs :
        tasks[i].op \in {"import", "export"}
        => LET p == Posted(i)
               n == Len(p)
               terminal == {j \in 1..n : Terminal(p[j].msg)}
           IN  IF Done(i)
               THEN /\ terminal = {n}
                    /\ p[n].msg.type # "error" => p[n].msg.type = SuccessOf(tasks[i])
                    /\ p[n].msg.type = "error"
                       => /\ n >= 2
                          /\ p[n - 1].msg.type = "log"
                          /\ p[n - 1].msg.level = "ERROR"
                          /\ p[n - 1].msg.code = p[n].msg.code
                          /\ Cardinality({j \in 1..n : /\ p[j].msg.type = "log"
                                                       /\ p[j].msg.code = p[n].msg.code}) = 1
               ELSE terminal = {}

\* a CSS export and an import both ended with an error, another export with success
C10_Witness ==
    /\ \E i \in Runs : tasks[i].op = "export" /\ EndedWith(i, "error")
    /\ \E i \in Runs : tasks[i].op = "import" /\ EndedWith(i, "error")


---------------------------------------------------------------------------
\* the messages but for the summary warning of the legacy dialect
WithoutLegacyWarning(out) == SelectSeq(out, LAMBDA m : m.code # "legacy-format")

SummaryWarnings(out) ==
    Cardinality({j \in 1..Len(out) : out[j].level = "WARN" /\ out[j].code = "legacy-format"})

\* the messages of invocation i
Messages(i) == [j \in 1..Len(Posted(i)) |-> Posted(i)[j].msg]

\* both imports have ended: the DTCG one as invocation 1, the legacy one as 2
BothImported == ret.stage = "dtcg" /\ Done(2)

\* the maps flattenVariables returns for the first mode's tree in the two dialects
MapDTCG == flattenVariables(arg.data.o[1].val.o[1].val, <<>>, FALSE).result
MapLegacy == flattenVariables(LegacyDocument(arg.data).o[1].val.o[1].val, <<>>, FALSE).result

\* the two imports left the same host and posted the same messages, but for the
\* flag and the one summary warning of the legacy run
SameImport ==
    /\ host = ret.h
    /\ WithoutLegacyWarning(Messages(2)) = WithoutLegacyWarning(Messages(1))
    /\ ~tasks[1].legacyDetector /\ SummaryWarnings(Messages(1)) = 0
    /\ tasks[2].legacyDetector /\ SummaryWarnings(Messages(2)) = 1

\* C5 as stated: the legacy and the DTCG form of a document flatten to identical maps
\* and import to identical hosts; only the legacy flag and its warning differ.
C5_DialectsEquivalent ==
    BothImported => MapLegacy = MapDTCG /\ SameImport

\* a tag that is falsy (an empty text) is undefined in the DTCG record and kept in
\* the legacy record
SameButFalsy(legacy, dtcg) == legacy = dtcg \/ (dtcg = JUndef /\ ~Truthy(legacy))

\* C5, amended: the two imports leave identical hosts and post identical messages
\* but for the legacy flag and its warning; the two maps have the same paths in the
\* same order and the same values; type and description are the same but where the
\* tag is falsy, which the legacy record keeps and the DTCG record has as undefined.
C5_DialectsEquivalentButFalsyTags ==
    BothImported
    => /\ SameImport
       /\ Len(MapLegacy) = Len(MapDTCG)
       /\ \A j \in 1..Len(MapDTCG) :
             /\ MapLegacy[j].key = MapDTCG[j].key
             /\ MapLegacy[j].val.value = MapDTCG[j].val.value
             /\ SameButFalsy(MapLegacy[j].val.type, MapDTCG[j].val.type)
             /\ SameButFalsy(MapLegacy[j].val.description, MapDTCG[j].val.description)
       /\ (\A j \in 1..Len(MapDTCG) :
              /\ Truthy(MapLegacy[j].val.type)
              /\ MapLegacy[j].val.description \in {JUndef, JStr(<<"d">>)})
          => MapLegacy = MapDTCG

\* both imports ran on a host that held a variable, flattened two leaves to the same
\* map, set an alias, and the legacy run warned
C5_Witness ==
    /\ BothImported
    /\ Len(arg.h.vars) > 0
    /\ Len(MapDTCG) = 2
    /\ MapLegacy = MapDTCG
    /\ SummaryWarnings(Messages(2)) = 1
    /\ \E v \in 1..Len(host.vars) :
          \E m \in 1..Len(host.vars[v].valuesByMode) :
             host.vars[v].valuesByMode[m].value.k = "alias"

---------------------------------------------------------------------------
Reserved(key) == StartsWith(key, "_") \/ StartsWith(key, "$")

\* the tag of a leaf in whichever dialect it is written
Tag(leaf, dtcg, legacy) == IF In(dtcg, leaf) THEN Get(leaf, dtcg) ELSE Get(leaf, legacy)

\* a JSON tree as a Token Tree: reserved keys are no children, a leaf is its type,
\* value and description
RECURSIVE TokenTreeOf(_)
TokenTreeOf(tree) ==
    LET children == SelectSeq(tree.o, LAMBDA e : ~Reserved(e.key))
    IN  JObj([j \in 1..Len(children) |->
                E(children[j].key,
                  IF isVariable(children[j].val)
                  THEN JObj(<<E(<<"type">>, Tag(children[j].val, TagType, LegacyType)),
                              E(<<"value">>, Tag(children[j].val, TagValue, LegacyValue)),
                              E(<<"description">>,
                                Tag(children[j].val, TagDescription, LegacyDescription))>>)
                  ELSE TokenTreeOf(children[j].val))])

RECURSIVE CleanTree(_)
CleanTree(tree) ==
    LET children == SelectSeq(tree.o, LAMBDA e : ~Reserved(e.key))
    IN  /\ Len(children) > 0
        /\ \A j \in 1..Len(children) :
              /\ children[j].key # <<>>
              /\ IF isVariable(children[j].val)
                 THEN /\ Truthy(Tag(children[j].val, TagType, LegacyType))
                      /\ Tag(children[j].val, TagDescription, LegacyDescription)
                            # JStr(<<>>)
                 ELSE CleanTree(children[j].val)

---------------------------------------------------------------------------
\* the tree has a leaf, under keys that are not skipped, with the tags "type" and
\* "value" and neither "$type" nor "$value"
RECURSIVE HasLegacyLeaf(_)
HasLegacyLeaf(tree) ==
    \E j \in 1..Len(tree.o) :
        LET node == tree.o[j].val IN
        /\ ~Reserved(tree.o[j].key)
        /\ node.k = "obj"
        /\ LET dtcg == In(<<"$", "type">>, node) /\ In(<<"$", "value">>, node)
               legacy == In(<<"type">>, node) /\ In(<<"value">>, node)
           IN  IF dtcg \/ legacy
               THEN legacy /\ ~In(<<"$", "type">>, node) /\ ~In(<<"$", "value">>, node)
               ELSE HasLegacyLeaf(node)

DocumentHasLegacyLeaf(data) ==
    \E c \in 1..Len(data.o) :
        \E m \in 1..Len(data.o[c].val.o) : HasLegacyLeaf(data.o[c].val.o[m].val)

\* the places of the legacy warning among the messages of invocation i
LegacyWarnings(i) ==
    {j \in 1..Len(Posted(i)) : /\ Posted(i)[j].msg.type = "log"
                               /\ Posted(i)[j].msg.code = "legacy-format"}

\* C11: an import that reached the end of Pass 3 posted the legacy warning exactly
\* once, at WARN, as its last message before the closing log and import-success,
\* when some leaf of some mode of some collection was recognised by the tags "type"
\* and "value" without "$type" and "$value"; it posted none otherwise, and an import
\* that did not get that far posted none.
C11_LegacyWarningOnce ==
    \A i \in Runs :
        tasks[i].op = "import"
        => LET p == Posted(i)
               n == Len(p)
           IN  IF EndedWith(i, "import-success")
               THEN /\ n >= 2
                    /\ p[n - 1].msg.code = "import-completed"
                    /\ IF DocumentHasLegacyLeaf(tasks[i].data)
                       THEN /\ LegacyWarnings(i) = {n - 2}
                            /\ p[n - 2].msg.level = "WARN"
                       ELSE LegacyWarnings(i) = {}
               ELSE LegacyWarnings(i) = {}

\* a document with two legacy leaves was imported: one warning
C11_Witness ==
    \E i \in Runs :
        /\ tasks[i].op = "import"
        /\ tasks[i].data = TwoLegacyLeaves
        /\ EndedWith(i, "import-success")
        /\ Cardinality(LegacyWarnings(i)) = 1
        /\ Len(host.vars) = 2

---------------------------------------------------------------------------
\* the variable of this name in the collection of this name, 0 when there is none
VariableNamed(h, collectionName, varName) ==
    LET ids == {h.vars[v].id : v \in {w \in 1..Len(h.vars) :
                   /\ h.vars[w].name = varName
                   /\ \E c \in 1..Len(h.cols) :
                         /\ h.cols[c].name = collectionName
                         /\ h.cols[c].id = h.vars[w].variableCollectionId}}
    IN  IF ids = {} THEN 0 ELSE Least(ids)

\* the node carries the explicit alias fields
HasExplicitTarget(node) ==
    /\ node.k = "obj"
    /\ In(<<"targetCollection">>, node)
    /\ In(<<"targetVariable">>, node)

\* C12: after an import that ended with import-success, every node of the document
\* that carries targetCollection and targetVariable is a variable of its collection
\* whose value, in the mode of the node, is an alias to the variable targetVariable
\* of the collection targetCollection, whatever its "$value" says.
C12_ExplicitAliasImported ==
    \A i \in Runs :
        (tasks[i].op = "import" /\ After(i) /\ EndedWith(i, "import-success"))
        => \A c \in 1..Len(tasks[i].data.o) :
             \A m \in 1..Len(tasks[i].data.o[c].val.o) :
               LET tree == tasks[i].data.o[c].val.o[m].val IN
               \A j \in 1..Len(tree.o) :
                 HasExplicitTarget(tree.o[j].val)
                 => LET id == VariableNamed(host, tasks[i].data.o[c].key, tree.o[j].key)
                        target == VariableNamed(host,
                                      Get(tree.o[j].val, <<"targetCollection">>).s,
                                      Get(tree.o[j].val, <<"targetVariable">>).s)
                    IN  /\ id # 0
                        /\ target # 0
                        /\ \E k \in 1..Len(host.vars[VarIndex(host, id)].valuesByMode) :
                              host.vars[VarIndex(host, id)].valuesByMode[k].value
                                  = createVariableAlias(host.vars[VarIndex(host, target)])

---------------------------------------------------------------------------
\* what a tree holds at a path, undefined when the path leaves the tree
RECURSIVE AtPath(_, _)
AtPath(tree, parts) ==
    IF parts = <<>> THEN tree
    ELSE IF tree.k # "obj" THEN JUndef
    ELSE AtPath(Get(tree, Head(parts)), Tail(parts))

\* the places in ui' of the warnings this step posted for a variable and a mode
BrokenWarnings(varName, modeName) ==
    {j \in NewPositions : /\ ui'[j].msg.type = "log"
                          /\ ui'[j].msg.code = "broken-alias"
                          /\ ui'[j].msg.a = varName
                          /\ ui'[j].msg.b = modeName}

\* the variables named varName, in a mode named modeName of their collection, whose
\* value in that mode is an alias of a variable the host no longer holds
BrokenPlaces(varName, modeName) ==
    {x \in (1..Len(host.vars)) \X (1..HostModeLimit) :
        LET variable == host.vars[x[1]]
            c == ColIndex(host, variable.variableCollectionId)
        IN  /\ variable.name = varName
            /\ c # 0
            /\ x[2] <= Len(host.cols[c].modes)
            /\ host.cols[c].modes[x[2]].name = modeName
            /\ LET value == ValueByMode(variable, host.cols[c].modes[x[2]].modeId)
               IN  /\ value.k = "alias"
                   /\ VarIndex(host, value.id) = 0}

\* C13: the step that ends a simplified or fullspec export posts export-success
\* with a leaf for every variable in every mode of its collection; the leaf of an
\* alias whose target is a variable of the host holds "{Collection.path}", the
\* target's name with "." for every "/", and no warning is posted for it; the leaf
\* of an alias whose target is gone holds BROKEN_ALIAS and exactly one WARN is
\* posted for that variable and mode (a warning names the variable and the mode,
\* so the warnings of a name and a mode are as many as the broken aliases of that
\* name and mode in all collections).
C13_Step ==
    \A i \in Runs :
        (Stepping(i) /\ tasks[i].pc = "x_vars"
            /\ tasks[i].format \in {"simplified", "fullspec"})
        => LET last == ui'[Len(ui')].msg IN
           /\ last.type = "export-success"
           /\ \A c \in 1..Len(host.cols) :
              \A m \in 1..Len(host.cols[c].modes) :
              \A v \in 1..Len(host.vars) :
                host.vars[v].variableCollectionId = host.cols[c].id
                => LET variable == host.vars[v]
                       mode == host.cols[c].modes[m]
                       value == ValueByMode(variable, mode.modeId)
                       leaf == AtPath(last.data, <<host.cols[c].name, mode.name>>
                                                     \o Split(variable.name, "/"))
                       warnings == BrokenWarnings(variable.name, mode.name)
                       targets == {w \in 1..Len(host.vars) : host.vars[w].id = value.id}
                   IN  /\ leaf.k = "obj"
                       /\ \A j \in warnings : ui'[j].msg.level = "WARN"
                       /\ Cardinality(warnings)
                            = Cardinality(BrokenPlaces(variable.name, mode.name))
                       /\ IF value.k # "alias"
                          THEN Get(leaf, TagValue) \notin {JUndef, JStr(<<"BROKEN_ALIAS">>)}
                          ELSE IF targets # {}
                          THEN LET target == host.vars[CHOOSE w \in targets : TRUE]
                                   owner == CHOOSE k \in 1..Len(host.cols) :
                                       host.cols[k].id = target.variableCollectionId
                               IN  Get(leaf, TagValue)
                                        = JStr(<<"{">> \o host.cols[owner].name \o <<".">>
                                               \o Join(Split(target.name, "/"), ".")
                                               \o <<"}">>)
                          ELSE /\ <<v, m>> \in BrokenPlaces(variable.name, mode.name)
                               /\ Get(leaf, TagValue) = JStr(<<"BROKEN_ALIAS">>)

C13_AliasRendered == [][C13_Step]_vars

\* an export of two modes ended with export-success: the alias to g/h/a is rendered
\* "{A.g.h.a}" and the alias whose target the user removed got a warning per mode
C13_Witness ==
    \E i \in Runs :
        /\ tasks[i].op = "export"
        /\ tasks[i].format \in {"simplified", "fullspec"}
        /\ EndedWith(i, "export-success")
        /\ LET p == Posted(i)
               data == p[Len(p)].msg.data
           IN  /\ Cardinality({j \in 1..Len(p) : p[j].msg.code = "broken-alias"}) = 2
               /\ Get(AtPath(data, <<A, Dark, <<"q">>>>), TagValue) = JStr(<<"BROKEN_ALIAS">>)
               /\ Get(AtPath(data, <<A, Light, <<"p">>>>), TagValue)
                    = JStr(<<"{", "A", ".", "g", ".", "h", ".", "a", "}">>)
               /\ AtPath(data, <<A, Light, <<"g">>, <<"h">>, <<"a">>>>).k = "obj"

---------------------------------------------------------------------------
\* the word stands somewhere in the lower-cased name
Mentions(lower, word) ==
    \E i \in 0..(Len(lower) - Len(word)) : \A k \in 1..Len(word) : lower[i + k] = word[k]

\* the section the claim gives a FLOAT variable of this name
ClaimedSection(name) ==
    LET lower == toLowerCase(name) IN
    IF \E w \in {<<"s", "p", "a", "c", "i", "n", "g">>,
                  <<"s", "p", "a", "c", "e">>, <<"g", "a", "p">>,
                  <<"m", "a", "r", "g", "i", "n">>,
                  <<"p", "a", "d", "d", "i", "n", "g">>} : Mentions(lower, w)
    THEN "spacing"
    ELSE IF Mentions(lower, <<"f", "o", "n", "t">>) /\ Mentions(lower, <<"s", "i", "z", "e">>)
    THEN "fontSize"
    ELSE IF \E w \in {<<"r", "a", "d", "i", "u", "s">>,
                       <<"r", "o", "u", "n", "d", "e", "d">>} : Mentions(lower, w)
    THEN "borderRadius"
    ELSE "spacing"

\* the sections of a Tailwind theme that hold this key
SectionsOf(theme, key) ==
    {theme.o[j].key : j \in {k \in 1..Len(theme.o) : In(key, theme.o[k].val)}}

\* the three names the specification gives and their sections
ExampleSection(name) ==
    IF name = <<"S", "p", "a", "c", "i", "n", "g">> \o <<"/">> \o <<"G", "a", "p">> \o <<"/">> \o <<"S", "m", "a", "l", "l">>
    THEN "spacing"
    ELSE IF name = <<"R", "a", "d", "i", "u", "s">> \o <<"/">> \o <<"B", "u", "t", "t", "o", "n">>
    THEN "borderRadius"
    ELSE IF name = <<"O", "p", "a", "c", "i", "t", "y">> \o <<"/">> \o <<"D", "i", "s", "a", "b", "l", "e", "d">>
    THEN "spacing"
    ELSE ClaimedSection(name)

\* C14: the theme a Tailwind export posted holds every FLOAT variable of the host,
\* under the key made of its name, in exactly one section: spacing when the
\* lower-cased name has spacing, space, gap, margin or padding in it; else fontSize
\* when it has both font and size; else borderRadius when it has radius or rounded;
\* else spacing. Spacing/Gap/Small is in spacing, Radius/Button in borderRadius,
\* Opacity/Disabled in spacing.
C14_FloatSection ==
    \A i \in Runs :
        (tasks[i].op = "export" /\ tasks[i].format = "tailwind" /\ Done(i))
        => /\ EndedWith(i, "export-success-tailwind")
           /\ \A v \in 1..Len(host.vars) :
                 host.vars[v].resolvedType = "FLOAT"
                 => LET theme == Posted(i)[Len(Posted(i))].msg.data
                        key == TailwindKey(host.vars[v].name)
                        section == ExampleSection(host.vars[v].name)
                    IN  /\ SectionsOf(theme, key) = {<<section>>}
                        /\ section \in {"spacing", "fontSize", "borderRadius"}
                        /\ Get(Get(theme, <<section>>), key) = JStr(<<"12", "px">>)

\* the variable Font/Size was exported to fontSize under the key font-size
C14_Witness ==
    \E i \in Runs :
        /\ tasks[i].op = "export" /\ tasks[i].format = "tailwind"
        /\ EndedWith(i, "export-success-tailwind")
        /\ host.vars[1].name = <<"F", "o", "n", "t">> \o <<"/">> \o <<"S", "i", "z", "e">>
        /\ SectionsOf(Posted(i)[Len(Posted(i))].msg.data,
                      <<"f", "o", "n", "t", "-", "s", "i", "z", "e">>) = {<<"fontSize">>}

---------------------------------------------------------------------------
\* invocation i has begun and has not posted its terminal message
InFlight(i) == tasks[i].pc \notin {"idle", "done"}

\* C15: no invocation begins while an earlier one is suspended at an await: at no
\* time are two invocations in flight.
C15_OneOperationInFlight ==
    \A i \in Runs : \A j \in Runs : (InFlight(i) /\ InFlight(j)) => i = j

---------------------------------------------------------------------------
\* the resolved type the table gives a type tag; a tag that is absent or an empty
\* text gives STRING
TypeOfTag(tag) ==
    IF tag.k # "str" THEN "STRING"
    ELSE IF tag.s \in {<<"color">>, <<"Color">>, <<"COLOR">>} THEN "COLOR"
    ELSE IF tag.s \in {<<"number">>, <<"Number">>, <<"NUMBER">>} THEN "FLOAT"
    ELSE IF tag.s \in {<<"boolean">>, <<"Boolean">>, <<"BOOLEAN">>} THEN "BOOLEAN"
    ELSE "STRING"

\* the ids of the variables of a host
VariableIds(h) == {h.vars[v].id : v \in 1..Len(h.vars)}

\* the tree of the first mode the document of invocation i declares for the
\* collection with this id
FirstModeTree(i, colId) ==
    LET name == host'.cols[ColIndex(host', colId)].name
        modes == Get(tasks[i].data, name)
    IN  modes.o[1].val

\* C16: a variable a step of an import creates has the resolved type the table
\* gives the type tag its path has in the first mode the document declares for its
\* collection; no step of any invocation changes the resolved type of a variable.
C16_Step ==
    /\ \A i \in Runs :
          Stepping(i)
          => \A v \in 1..Len(host'.vars) :
                host'.vars[v].id \notin VariableIds(host)
                => LET variable == host'.vars[v]
                       leaf == AtPath(FirstModeTree(i, variable.variableCollectionId),
                                      Split(variable.name, "/"))
                   IN  /\ tasks[i].op = "import"
                       /\ leaf.k = "obj"
                       /\ variable.resolvedType = TypeOfTag(Tag(leaf, TagType, LegacyType))
    /\ \A v \in 1..Len(host.vars) :
          \A w \in 1..Len(host'.vars) :
             host.vars[v].id = host'.vars[w].id
             => host.vars[v].resolvedType = host'.vars[w].resolvedType

C16_TypeFixedAtCreation == [][C16_Step]_vars

\* a was created COLOR from the tag "Color" of the first mode; the tag "number" of
\* the second mode and of a second document left it COLOR
C16_Witness ==
    /\ Done(1) /\ Done(2)
    /\ tasks[1].op = "import" /\ tasks[2].op = "import"
    /\ tasks[1].data # tasks[2].data
    /\ Logged(1, "adding-mode")
    /\ Logged(2, "set-failed")
    /\ \E v \in 1..Len(host.vars) :
          /\ host.vars[v].name = <<"a">>
          /\ host.vars[v].resolvedType = "COLOR"
          /\ Get(Get(Get(Get(tasks[2].data, A), Light), <<"a">>), TagType)
                = JStr(<<"number">>)
    /\ \E v \in 1..Len(host.vars) :
          host.vars[v].name = <<"u">> /\ host.vars[v].resolvedType = "STRING"

---------------------------------------------------------------------------
\* the paths of the leaves of a tree
RECURSIVE LeafPaths(_)
LeafPaths(tree) ==
    UNION { LET key == tree.o[j].key
                node == tree.o[j].val
            IN  IF Reserved(key) \/ node.k \notin {"obj", "arr"} THEN {}
                ELSE IF \/ In(<<"$", "type">>, node) /\ In(<<"$", "value">>, node)
                        \/ In(<<"type">>, node) /\ In(<<"value">>, node)
                THEN {key}
                ELSE {key \o <<"/">> \o p : p \in LeafPaths(node)}
            : j \in 1..Len(tree.o) }

\* the paths the document declares for its c-th collection in a later mode and not
\* in the first
LaterOnly(data, c) ==
    LET modes == data.o[c].val.o IN
    IF Len(modes) < 2 THEN {}
    ELSE UNION {LeafPaths(modes[m].val) : m \in 2..Len(modes)} \ LeafPaths(modes[1].val)

\* the host has a variable of this name in the collection with this id
Holds(h, varName, colId) ==
    \E v \in 1..Len(h.vars) :
        h.vars[v].name = varName /\ h.vars[v].variableCollectionId = colId

\* invocation i is at a Pass 3 token whose path is in a later mode only and for
\* which the collection holds no variable
AtLaterOnlyToken(i) ==
    /\ tasks[i].pc = "p3_vars"
    /\ LET t == tasks[i] IN
       /\ t.variables[t.vi].key \in LaterOnly(t.data, t.ci)
       /\ ~Holds(host, t.variables[t.vi].key, MapGet(t.collectionMap, t.data.o[t.ci].key))

\* C17: no step of an import creates a variable for a path that its document
\* declares in a later mode only; at such a token, when the collection holds no
\* variable of that name, Pass 3 leaves the host as it is, posts no log and no error
\* for it and goes on at the next token.
C17_Step ==
    \A i \in Runs :
        (Stepping(i) /\ tasks[i].op = "import")
        => /\ \A c \in 1..Len(tasks[i].data.o) :
                 \A p \in LaterOnly(tasks[i].data, c) :
                    LET colId == MapGet(tasks'[i].collectionMap, tasks[i].data.o[c].key)
                    IN  ~Holds(host, p, colId) => ~Holds(host', p, colId)
           /\ AtLaterOnlyToken(i)
              => LET rest == EnterP3Var([Sys(i) EXCEPT !.t.vi = @ + 1]) IN
                 /\ host' = host
                 /\ tasks'[i] = rest.t
                 /\ [j \in 1..(Len(ui') - Len(ui)) |-> ui'[Len(ui) + j].msg] = rest.out
                 /\ \A j \in NewPositions :
                       /\ ui'[j].msg.type # "error"
                       /\ ui'[j].msg.type = "log"
                          => ui'[j].msg.code \in {"legacy-format", "import-completed"}

\* the import of the document with such a path ends with import-success
C17_End ==
    \A i \in Runs :
        (tasks[i].op = "import" /\ Done(i) /\ tasks[i].data = MixedLater)
        => EndedWith(i, "import-success")

C17_LaterModeOnlySkipped == [][C17_Step]_vars /\ []C17_End

\* an import whose second mode alone declares c ended with import-success and the
\* collection holds a and b and no c
C17_Witness ==
    \E i \in Runs :
        /\ tasks[i].op = "import"
        /\ tasks[i].data = MixedLater
        /\ EndedWith(i, "import-success")
        /\ LaterOnly(tasks[i].data, 1) = {<<"c">>}
        /\ Len(host.cols) = 1
        /\ Holds(host, <<"a">>, host.cols[1].id)
        /\ ~Holds(host, <<"c">>, host.cols[1].id)

---------------------------------------------------------------------------
\* the alias invocation i is resolving names a collection of its document and a
\* path the first mode of that collection declares
TargetDeclared(i) ==
    \E c \in 1..Len(tasks[i].data.o) :
        /\ tasks[i].data.o[c].key = tasks[i].targetCollectionName
        /\ Len(tasks[i].data.o[c].val.o) >= 1
        /\ tasks[i].targetVariableName \in LeafPaths(tasks[i].data.o[c].val.o[1].val)

\* C18: when Pass 3 resolves an alias {C.p} and the document declares p in the first
\* mode of C, the host holds the variable p of C by then, wherever C stands in the
\* document, and the step sets the value to an alias to that variable without a
\* fuzzy-match or not-found warning.
C18_Step ==
    \A i \in Runs :
        (tasks[i].pc = "p3_alias_vars" /\ Stepping(i) /\ TargetDeclared(i))
        => LET target == VariableNamed(host, tasks[i].targetCollectionName,
                                       tasks[i].targetVariableName)
           IN  /\ target # 0
               /\ ValueByMode(host'.vars[VarIndex(host', tasks[i].variableId)],
                              CurrentModeId(tasks[i]))
                     = HVal("alias", <<>>, target)
               /\ \A j \in NewPositions :
                     ui'[j].msg.code \notin {"fuzzy-match", "alias-not-found", "set-failed"}

C18_AliasToLaterCollection == [][C18_Step]_vars

\* the document declares B before A, and p of B is an alias to a of A
C18_Witness ==
    \E i \in Runs :
        /\ tasks[i].op = "import"
        /\ EndedWith(i, "import-success")
        /\ Len(tasks[i].data.o) = 2
        /\ tasks[i].data.o[1].key = B /\ tasks[i].data.o[2].key = A
        /\ VariableNamed(host, B, <<"p">>) # 0
        /\ VariableNamed(host, A, <<"a">>) # 0
        /\ \E m \in 1..Len(host.vars[VarIndex(host, VariableNamed(host, B, <<"p">>))].valuesByMode) :
              host.vars[VarIndex(host, VariableNamed(host, B, <<"p">>))].valuesByMode[m].value
                  = HVal("alias", <<>>, VariableNamed(host, A, <<"a">>))

---------------------------------------------------------------------------
\* invocation i is an import that has left Pass 1 and has not ended
PastPass1(i) ==
    /\ tasks[i].op = "import"
    /\ tasks[i].pc \in {"p2_delay", "p2_vars", "p3_delay", "p3_vars",
                        "p3_alias_cols", "p3_alias_vars"}

\* C19: once an import has left Pass 1, the mode map of every collection of its
\* document gives distinct declared mode names distinct mode ids, and each id is
\* that of a mode of the collection whose name is now the declared name; also when
\* a later mode is declared as "Mode 1" and the first was made by renaming the
\* default mode.
C19_ModeMapFaithful ==
    \A i \in Runs :
        PastPass1(i)
        => \A c \in 1..Len(tasks[i].data.o) :
              LET name == tasks[i].data.o[c].key
                  declared == Keys(tasks[i].data.o[c].val)
                  modeMap == MapGet(tasks[i].collectionModeMaps, name)
                  collection == host.cols[ColIndex(host, MapGet(tasks[i].collectionMap, name))]
              IN  /\ \A m, n \in 1..Len(declared) :
                        m # n => MapGet(modeMap, declared[m]) # MapGet(modeMap, declared[n])
                  /\ \A m \in 1..Len(declared) :
                        \E k \in 1..Len(collection.modes) :
                            /\ collection.modes[k].modeId = MapGet(modeMap, declared[m])
                            /\ collection.modes[k].name = declared[m]

---------------------------------------------------------------------------
---------------------------------------------------------------------------
\* the names of the variables of the collection at place c of the host
NamesIn(h, c) ==
    {h.vars[v].name : v \in {w \in 1..Len(h.vars) :
                                h.vars[w].variableCollectionId = h.cols[c].id}}

\* C21: the step that ends a simplified or fullspec export posts a tree such that,
\* for every collection and every mode, flattening the mode's tree yields exactly
\* the names of the collection's variables as paths, each mapped to the type tag
\* and the value exported for that variable in that mode; no variable is lost or
\* absorbed when one name is a "/"-prefix of another.
C21_Step ==
    \A i \in Runs :
        (Stepping(i) /\ tasks[i].pc = "x_vars"
            /\ tasks[i].format \in {"simplified", "fullspec"})
        => LET last == ui'[Len(ui')].msg IN
           /\ last.type = "export-success"
           /\ \A c \in 1..Len(host.cols) :
              \A m \in 1..Len(host.cols[c].modes) :
                LET mode == host.cols[c].modes[m]
                    tree == AtPath(last.data, <<host.cols[c].name, mode.name>>)
                    flat == IF tree.k = "obj"
                            THEN flattenVariables(tree, <<>>, FALSE).result ELSE <<>>
                IN  /\ {flat[j].key : j \in 1..Len(flat)} = NamesIn(host, c)
                    /\ \A v \in 1..Len(host.vars) :
                          host.vars[v].variableCollectionId = host.cols[c].id
                          => LET x == ExportValue(host, host.vars[v], mode.modeId,
                                                  tasks[i].format).value
                                 r == MapGet(flat, host.vars[v].name)
                             IN  /\ r.type = Get(x, TagType)
                                 /\ r.value = Get(x, TagValue)

C21_FlattenedExportIsTheStore == [][C21_Step]_vars

---------------------------------------------------------------------------
\* the variable of h with this name in the collection with this name, as a set
Recreated(h, collectionName, varName) ==
    {v \in 1..Len(h.vars) :
        /\ h.vars[v].name = varName
        /\ ColIndex(h, h.vars[v].variableCollectionId) # 0
        /\ h.cols[ColIndex(h, h.vars[v].variableCollectionId)].name = collectionName}

TypeAfterRoundTrip(resolvedType, format) ==
    IF format = "fullspec" /\ resolvedType = "FLOAT" THEN "STRING" ELSE resolvedType

====
